---- MODULE Spec2Model ----
(***************************************************************************)
(* A model of nyaomaru/divider: the division engine (index slicing and     *)
(* delimiter splitting), the option pipeline (trim, flatten, exclude), the *)
(* quoted tokenizer built on top of them, dividerLoop, and the path and    *)
(* query presets.                                                          *)
(*                                                                         *)
(* A JavaScript string is a sequence of one-character strings, a string[]  *)
(* is a sequence of such sequences.  A value returned by the library is a  *)
(* record [kind, v]: kind "flat" (string[]), "nested" (string[][]) or the  *)
(* name of the exception the call raised (v is then empty).                *)
(***************************************************************************)
EXTENDS Integers, Sequences, FiniteSets, TLC

VARIABLES
  pc,          \* position of the running call: "ready", a loop position, "done"
  call,        \* the entry point called and its arguments
  result,      \* the value returned (or the exception raised) by the call
  regexCache,  \* module-level Map<string, RegExp> of utils/regex
  state        \* quoted tokenizer state { fields, current } plus the pieces left

vars == <<pc, call, result, regexCache, state>>

(***************************************************************************)
(* Sequence helpers                                                        *)
(***************************************************************************)
RECURSIVE Flat(_)
\* Array.prototype.flat() with depth 1 on an array of arrays
Flat(rows) == IF rows = <<>> THEN <<>> ELSE Head(rows) \o Flat(Tail(rows))

Map(seq, Op(_)) == [i \in 1..Len(seq) |-> Op(seq[i])]

\* the member of a one-member set: {F(x) : x \in {e}} works e out once,
\* however often F uses it
Only(S) == CHOOSE x \in S : TRUE

Max(a, b) == IF a >= b THEN a ELSE b
Min(a, b) == IF a <= b THEN a ELSE b

RECURSIVE Join(_, _)
\* Array.prototype.join(sep) on an array of strings
Join(parts, sep) ==
  IF parts = <<>> THEN <<>>
  ELSE IF Len(parts) = 1 THEN parts[1]
  ELSE parts[1] \o sep \o Join(Tail(parts), sep)

(***************************************************************************)
(* Characters                                                              *)
(***************************************************************************)
\* UTF-16 code unit of each character the model uses
CharCode(c) ==
  CASE c = "\t" -> 9   [] c = " " -> 32  [] c = "\"" -> 34 [] c = "#" -> 35
    [] c = "&" -> 38   [] c = "'" -> 39  [] c = "+" -> 43  [] c = "," -> 44
    [] c = "-" -> 45   [] c = "." -> 46  [] c = "/" -> 47  [] c = "=" -> 61
    [] c = "?" -> 63   [] c = "\\" -> 92 [] c = "]" -> 93  [] c = "^" -> 94
    [] c = "a" -> 97   [] c = "b" -> 98  [] c = "c" -> 99  [] c = "d" -> 100
    [] c = "e" -> 101  [] c = "f" -> 102 [] c = "h" -> 104 [] c = "l" -> 108
    [] c = "o" -> 111  [] c = "r" -> 114 [] c = "w" -> 119 [] c = "|" -> 124
    [] c = "%" -> 37   [] c = "*" -> 42  [] c = "2" -> 50  [] c = "6" -> 54
    [] c = ":" -> 58   [] c = "j" -> 106

\* String.prototype.trim(): the white space the model's alphabet contains
IsTrimSpace(c) == c \in {" ", "\t"}

RECURSIVE TrimLeft(_)
TrimLeft(s) == IF s # <<>> /\ IsTrimSpace(Head(s)) THEN TrimLeft(Tail(s)) ELSE s

RECURSIVE TrimRight(_)
TrimRight(s) ==
  IF s # <<>> /\ IsTrimSpace(s[Len(s)]) THEN TrimRight(SubSeq(s, 1, Len(s) - 1)) ELSE s

Trim(s) == Only({TrimRight(rest) : rest \in {TrimLeft(s)}})

\* String.prototype.slice(start, end): negative offsets count from the end,
\* both are clamped to [0, length]
SliceOffset(len, k) == IF k < 0 THEN Max(len + k, 0) ELSE Min(k, len)

Slice(s, start, end) ==
  IF SliceOffset(Len(s), end) <= SliceOffset(Len(s), start) THEN <<>>
  ELSE SubSeq(s, SliceOffset(Len(s), start) + 1, SliceOffset(Len(s), end))

SliceFrom(s, start) == Slice(s, start, Len(s))

(***************************************************************************)
(* utils/is                                                                *)
(***************************************************************************)
isEmptyString(value) == value = <<>>

isEmptyArray(value) == value = <<>>

isWhitespaceOnly(value) == Trim(value) = <<>>

\* a JavaScript value is a record tagged with its typeof; what typeof calls
\* 'object' is tagged "object" (a plain object), "instance" (an object of a
\* class), "array" or "null"
isNumber(value) == value.t = "number"

isString(value) == value.t = "string"

isStringOrNumber(value) == isString(value) \/ isNumber(value)

(***************************************************************************)
(* Returned values                                                         *)
(***************************************************************************)
\* a string[]
FlatResult(segments) == [kind |-> "flat", v |-> segments]

\* a string[][]; the empty array [] is one value, whatever it was meant to hold
NestedResult(rows) == [kind |-> IF rows = <<>> THEN "flat" ELSE "nested", v |-> rows]

\* the call raised: TypeError, SyntaxError, or Error('Invalid numeric separators')
Raised(name) == [kind |-> name, v |-> <<>>]

IsRaised(r) == r.kind \notin {"flat", "nested"}

(***************************************************************************)
(* utils/regex                                                             *)
(***************************************************************************)
\* the characters escapeRegExp puts a backslash before: . * + ? ^ $ { } ( ) | [ ] \
RegExpSpecials == {".", "*", "+", "?", "^", "$", "{", "}", "(", ")", "|", "[", "]", "\\"}

\* escapeRegExp escaping nothing
escapeRegExpNothing(str) == str

RECURSIVE escapeRegExp(_)
escapeRegExp(str) ==
  IF str = <<>> THEN <<>>
  ELSE (IF Head(str) \in RegExpSpecials THEN <<"\\", Head(str)>> ELSE <<Head(str)>>)
       \o escapeRegExp(Tail(str))

\* one ClassAtom of a character class starting at position i: an identity
\* escape \x or a single character
ClassAtomAt(p, i) ==
  IF p[i] = "\\" /\ i < Len(p)
  THEN [ch |-> p[i + 1], next |-> i + 2]
  ELSE [ch |-> p[i], next |-> i + 1]

\* a backslash that ends the pattern escapes the closing bracket: the class
\* is left open, a SyntaxError
DanglingEscape(p, i) == i = Len(p) /\ p[i] = "\\"

\* the class with the range lo-hi added; out of order is a SyntaxError
AddClassRange(rest, lo, hi) ==
  IF lo > hi \/ rest.err THEN [err |-> TRUE, ranges |-> {}]
  ELSE [err |-> FALSE, ranges |-> rest.ranges \cup {<<lo, hi>>}]

RECURSIVE ClassRanges(_, _)
\* the ClassRanges of the pattern source from position i on: atom, or
\* atom - atom (a range)
ClassRanges(p, i) ==
  IF i > Len(p) THEN [err |-> FALSE, ranges |-> {}]
  ELSE IF DanglingEscape(p, i) THEN [err |-> TRUE, ranges |-> {}]
  ELSE IF ClassAtomAt(p, i).next < Len(p) /\ p[ClassAtomAt(p, i).next] = "-"
  THEN IF DanglingEscape(p, ClassAtomAt(p, i).next + 1) THEN [err |-> TRUE, ranges |-> {}]
       ELSE
       AddClassRange(ClassRanges(p, ClassAtomAt(p, ClassAtomAt(p, i).next + 1).next),
                     CharCode(ClassAtomAt(p, i).ch),
                     CharCode(ClassAtomAt(p, ClassAtomAt(p, i).next + 1).ch))
  ELSE AddClassRange(ClassRanges(p, ClassAtomAt(p, i).next),
                     CharCode(ClassAtomAt(p, i).ch), CharCode(ClassAtomAt(p, i).ch))

\* new RegExp(`[${pattern}]`, 'g'): the compiled character class
CompiledClass(pattern, parsed) ==
  [source |-> pattern, err |-> parsed.err, ranges |-> parsed.ranges]

NewCharClassRegExp(pattern) ==
  Only({CompiledClass(source, Only({ClassRanges(p, 1) : p \in {source}})) :
          source \in {pattern}})

\* does the (one-character) regex match the character c
RegExpTest(regex, c) ==
  \E r \in regex.ranges : r[1] <= CharCode(c) /\ CharCode(c) <= r[2]

RECURSIVE getRegexPattern(_)
\* separators.reduce((acc, sep) => acc + escapeRegExp(sep), '')
getRegexPattern(separators) ==
  IF separators = <<>> THEN <<>>
  ELSE escapeRegExp(Head(separators)) \o getRegexPattern(Tail(separators))

\* JSON's string escapes of the characters the model uses: \" and \\
JSONQuote(str) ==
  Flat([i \in 1..Len(str) |-> IF str[i] \in {"\"", "\\"} THEN <<"\\", str[i]>> ELSE <<str[i]>>])

\* JSON.stringify(separators) of a string[]: ["a","b"]
JSONStringify(separators) ==
  <<"[">> \o Join([i \in 1..Len(separators) |-> <<"\"">> \o JSONQuote(separators[i]) \o <<"\"">>],
                 <<",">>) \o <<"]">>

\* regexCache.set(key, new RegExp(...)) that forgets every other entry
regexCacheSetAlone(cache, key, compiled) ==
  [null |-> FALSE, threw |-> compiled.err, regex |-> compiled,
   cache |-> IF compiled.err THEN cache ELSE (key :> compiled)]

\* regexCache.set(key, new RegExp(...)) and the lookup that follows; a
\* constructor that throws leaves the cache as it was
regexCacheSet(cache, key, compiled) ==
  IF compiled.err
  THEN [null |-> FALSE, threw |-> TRUE, regex |-> compiled, cache |-> cache]
  ELSE [null |-> FALSE, threw |-> FALSE, regex |-> compiled,
        cache |-> (key :> compiled) @@ cache]

\* getRegex against the cache: the regex (or null, or the SyntaxError of the
\* constructor) and the cache afterwards
getRegexKeyed(cache, separators, key) ==
  IF key \in DOMAIN cache
  THEN [null |-> FALSE, threw |-> FALSE, regex |-> cache[key], cache |-> cache]
  ELSE Only({regexCacheSet(cache, key, compiled) :
               compiled \in {NewCharClassRegExp(getRegexPattern(separators))}})

getRegex(cache, separators) ==
  IF isEmptyArray(separators)
  THEN [null |-> TRUE, threw |-> FALSE, regex |-> NewCharClassRegExp(<<>>), cache |-> cache]
  ELSE Only({getRegexKeyed(cache, separators, key) : key \in {JSONStringify(separators)}})

RECURSIVE SplitAcc(_, _, _, _, _)
SplitAcc(s, regex, i, cur, out) ==
  IF i > Len(s) THEN Append(out, cur)
  ELSE IF RegExpTest(regex, s[i])
       THEN SplitAcc(s, regex, i + 1, <<>>, Append(out, cur))
       ELSE SplitAcc(s, regex, i + 1, Append(cur, s[i]), out)

\* String.prototype.split(regex) for a regex that matches single characters
split(s, regex) ==
  Only({SplitAcc(str, re, 1, <<>>, <<>>) : <<str, re>> \in {<<s, regex>>}})

(***************************************************************************)
(* utils/sort, utils/slice                                                 *)
(***************************************************************************)
RECURSIVE InsertAscending(_, _)
InsertAscending(sorted, n) ==
  IF sorted = <<>> THEN <<n>>
  ELSE IF n < Head(sorted) THEN <<n>> \o sorted
  ELSE <<Head(sorted)>> \o InsertAscending(Tail(sorted), n)

RECURSIVE sortAscending(_)
\* a sorted copy of the numbers, ascending
sortAscending(numbers) ==
  IF numbers = <<>> THEN <<>>
  ELSE InsertAscending(sortAscending(SubSeq(numbers, 1, Len(numbers) - 1)),
                       numbers[Len(numbers)])

\* a cut point outside [0, length] is taken at the nearer end
clampIndex(len, index) == Max(0, Min(index, len))

RECURSIVE SliceLoop(_, _, _)
SliceLoop(input, indexes, start) ==
  IF indexes = <<>> THEN <<SliceFrom(input, start)>>
  ELSE <<Slice(input, start, clampIndex(Len(input), Head(indexes)))>>
       \o SliceLoop(input, Tail(indexes), clampIndex(Len(input), Head(indexes)))

\* cut the string at each index in turn; no index gives the whole string
sliceByIndexes(input, indexes) ==
  IF indexes = <<>> THEN <<input>> ELSE SliceLoop(input, indexes, 0)

(***************************************************************************)
(* utils/parser                                                            *)
(***************************************************************************)
hasNoSeparators(numSeparators, strSeparators) ==
  isEmptyArray(numSeparators) /\ isEmptyArray(strSeparators)

\* TRUE when assertValidNumSeparators returns, FALSE when it throws
assertValidNumSeparators(numSeparators) ==
  \A i \in 1..Len(numSeparators) : isNumber(numSeparators[i])

NumbersOf(values) == [i \in 1..Len(values) |-> values[i].n]

\* regex ? parts.flatMap((part) => part.split(regex)) : parts
splitParts(parts, got) ==
  IF got.null THEN parts
  ELSE Only({Flat(rows) : rows \in {[i \in 1..Len(parts) |-> split(parts[i], got.regex)]}})

\* keepSegments with the filter applied whatever the flag says
keepSegmentsAlwaysFiltered(segments, shouldPreserveEmpty) ==
  SelectSeq(segments, LAMBDA segment : ~isEmptyString(segment))

\* keepSegments with the filter left out
keepSegmentsNeverFiltered(segments, shouldPreserveEmpty) == segments

\* shouldPreserveEmpty ? segments : segments.filter(not empty)
keepSegments(segments, shouldPreserveEmpty) ==
  IF shouldPreserveEmpty THEN segments
  ELSE SelectSeq(segments, LAMBDA segment : ~isEmptyString(segment))

\* divideSegments slicing at the indexes in the order they were given
divideSegmentsUnsorted(got, input, numSeparators, shouldPreserveEmpty) ==
  IF got.threw
  THEN [out |-> Raised("SyntaxError"), cache |-> got.cache]
  ELSE [out |-> FlatResult(keepSegments(
                  Only({splitParts(parts, got) :
                          parts \in {sliceByIndexes(input, NumbersOf(numSeparators))}}),
                  shouldPreserveEmpty)),
        cache |-> got.cache]

\* divideString once getRegex has answered (got): slice at the sorted
\* indexes, split each part, drop the empty segments
divideSegments(got, input, numSeparators, shouldPreserveEmpty) ==
  IF got.threw
  THEN [out |-> Raised("SyntaxError"), cache |-> got.cache]
  ELSE [out |-> FlatResult(keepSegments(
                  Only({splitParts(parts, got) :
                          parts \in {sliceByIndexes(input,
                                                    sortAscending(NumbersOf(numSeparators)))}}),
                  shouldPreserveEmpty)),
        cache |-> got.cache]

\* divideString(input, numSeparators, strSeparators, options) against the
\* regex cache: [out |-> the returned value, cache |-> the cache afterwards]
divideString(cache, input, numSeparators, strSeparators, options) ==
  IF hasNoSeparators(numSeparators, strSeparators)
  THEN [out |-> FlatResult(<<input>>), cache |-> cache]
  ELSE IF ~assertValidNumSeparators(numSeparators)
  THEN [out |-> Raised("Error"), cache |-> cache]
  ELSE Only({divideSegments(got, input, numSeparators,
                             "preserveEmpty" \in DOMAIN options
                               /\ options.preserveEmpty = TRUE) :
               got \in {getRegex(cache, strSeparators)}})

(***************************************************************************)
(* utils/is, on options and results                                        *)
(***************************************************************************)
DIVIDER_OPTION_KEYS == {"flatten", "trim", "preserveEmpty", "exclude"}

\* an options object is a record that has exactly the keys the object owns
OptionIs(options, key, value) == key \in DOMAIN options /\ options[key] = value

\* typeof value === 'object' && value !== null
isObject(value) == value.t \in {"object", "instance", "array"}

\* isPlainObject taking every object for a plain one
isPlainObjectAnyObject(value) == isObject(value)

\* an object whose prototype is null or Object.prototype
isPlainObject(value) == isObject(value) /\ value.t = "object"

\* Object.hasOwn(value, key): the arrays of the model own their elements only
hasOwn(value, key) == value.t \in {"object", "instance"} /\ key \in DOMAIN value.o

isOptions(value) ==
  isPlainObject(value) /\ \E key \in DIVIDER_OPTION_KEYS : hasOwn(value, key)

isValidInput(value) == value.t \in {"string", "array"}

\* a non-empty array whose first element is a non-empty array of strings
isNestedStringArray(value) ==
  value.kind = "nested" /\ Len(value.v) > 0 /\ Len(value.v[1]) > 0

\* isNoneMode(options.exclude)
isNoneMode(options) == OptionIs(options, "exclude", "none")

(***************************************************************************)
(* utils/exclude-predicate                                                 *)
(***************************************************************************)
\* excludePredicateMap[exclude](s); a mode the map does not have keeps all
shouldKeepSegment(exclude, s) ==
  CASE exclude = "empty"      -> ~isEmptyString(s)
    [] exclude = "whitespace" -> ~isWhitespaceOnly(s)
    [] OTHER                  -> TRUE

(***************************************************************************)
(* utils/option                                                            *)
(***************************************************************************)
\* [cleanedArgs, options] of a mixed argument list; the caller's list is
\* copied, never changed
lastArgIsOptions(args) == args # <<>> /\ isOptions(args[Len(args)])

extractOptions(args) ==
  IF lastArgIsOptions(args)
  THEN [cleanedArgs |-> SelectSeq(SubSeq(args, 1, Len(args) - 1), isStringOrNumber),
        options     |-> args[Len(args)].o]
  ELSE [cleanedArgs |-> SelectSeq(args, isStringOrNumber), options |-> <<>>]

\* preserveEmpty ? trimmed : trimmed.filter(not empty)
keepTrimmed(trimmed, preserveEmpty) ==
  IF preserveEmpty THEN trimmed
  ELSE SelectSeq(trimmed, LAMBDA segment : ~isEmptyString(segment))

trimSegments(segments, preserveEmpty) ==
  keepTrimmed([i \in 1..Len(segments) |-> Trim(segments[i])], preserveEmpty)

trimNestedSegments(rows, preserveEmpty) ==
  [i \in 1..Len(rows) |-> trimSegments(rows[i], preserveEmpty)]

\* the flat branch run on rows calls trim() on an array: a TypeError
applyTrimOption(output, options, shouldPreserveEmpty) ==
  IF ~OptionIs(options, "trim", TRUE) THEN output
  ELSE IF isNestedStringArray(output)
  THEN NestedResult(trimNestedSegments(output.v, shouldPreserveEmpty))
  ELSE IF output.kind = "nested" THEN Raised("TypeError")
  ELSE FlatResult(trimSegments(output.v, shouldPreserveEmpty))

\* applyFlattenOption ignoring the flag
applyFlattenOptionSkipped(output, options) == output

\* options.flatten ? output.flat() : output
applyFlattenOption(output, options) ==
  IF IsRaised(output) \/ ~OptionIs(options, "flatten", TRUE) THEN output
  ELSE IF output.kind = "nested" THEN FlatResult(Flat(output.v))
  ELSE output

\* the flat branch run on rows hands each row to the predicate: 'empty'
\* compares the row with '' (kept), 'whitespace' calls trim() on it
\* options.exclude ?? DIVIDER_EXCLUDE_MODES.NONE
excludeMode(options) ==
  IF "exclude" \in DOMAIN options THEN options.exclude ELSE "none"

filterFlat(arr, exclude) == SelectSeq(arr, LAMBDA s : shouldKeepSegment(exclude, s))

keepRows(filteredRows, shouldPreserveEmpty) ==
  IF shouldPreserveEmpty THEN filteredRows
  ELSE SelectSeq(filteredRows, LAMBDA row : Len(row) > 0)

filterNested(arr, exclude, shouldPreserveEmpty) ==
  keepRows([i \in 1..Len(arr) |-> filterFlat(arr[i], exclude)], shouldPreserveEmpty)

\* the flat branch run on rows hands each row to the predicate: 'empty'
\* compares the row with '' (kept), 'whitespace' calls trim() on it
applyExcludeOption(output, options, shouldPreserveEmpty) ==
  IF IsRaised(output) \/ isNoneMode(options) THEN output
  ELSE IF isNestedStringArray(output)
  THEN NestedResult(filterNested(output.v, excludeMode(options), shouldPreserveEmpty))
  ELSE IF output.kind = "nested"
  THEN (IF excludeMode(options) = "whitespace" THEN Raised("TypeError") ELSE output)
  ELSE FlatResult(filterFlat(output.v, excludeMode(options)))

\* trim, then flatten, then exclude; an exception ends the call
applyDividerOptions(res, options) ==
  applyExcludeOption(
    applyFlattenOption(
      applyTrimOption(res, options, OptionIs(options, "preserveEmpty", TRUE)),
      options),
    options, OptionIs(options, "preserveEmpty", TRUE))

(***************************************************************************)
(* core/divider                                                            *)
(***************************************************************************)
\* ensureStringArray wrapping an array as it wraps a string
ensureStringArrayWrapped(input) ==
  IF isString(input) THEN FlatResult(<<input.s>>) ELSE NestedResult(<<input.a>>)

\* no separators and no options: the input itself, a string wrapped
ensureStringArray(input) ==
  IF isString(input) THEN FlatResult(<<input.s>>) ELSE FlatResult(input.a)

StringsOf(values) == [i \in 1..Len(values) |-> values[i].s]

\* classifySeparators handing every argument over as a numeric separator
classifySeparatorsAllNumeric(args) ==
  [numSeparators |-> args,
   strSeparators |-> StringsOf(SelectSeq(args, isString))]

\* numbers to the numeric separators, strings to the string separators
classifySeparators(args) ==
  [numSeparators |-> SelectSeq(args, isNumber),
   strSeparators |-> StringsOf(SelectSeq(args, isString))]

\* the rows so far with one more row in front
ConsRow(d, rest) ==
  [out |-> IF IsRaised(rest.out) THEN rest.out ELSE NestedResult(<<d.out.v>> \o rest.out.v),
   cache |-> rest.cache]

RECURSIVE divideEach(_, _, _, _, _)

\* the first item divided (d), then the others unless it raised
divideRest(d, items, numSeparators, strSeparators, options) ==
  IF IsRaised(d.out) THEN d
  ELSE ConsRow(d, divideEach(d.cache, Tail(items), numSeparators, strSeparators, options))

\* input.map((item) => divideString(item, ...)): the rows, unless one raised
divideEach(cache, items, numSeparators, strSeparators, options) ==
  IF items = <<>> THEN [out |-> NestedResult(<<>>), cache |-> cache]
  ELSE divideRest(divideString(cache, Head(items), numSeparators, strSeparators, options),
                  items, numSeparators, strSeparators, options)

\* { preserveEmpty: options.preserveEmpty }
divideStringOptions(options) ==
  IF "preserveEmpty" \in DOMAIN options
  THEN [preserveEmpty |-> options.preserveEmpty] ELSE <<>>

\* the division of a string or of each element of an array
applyDivision(cache, input, seps, options) ==
  IF isString(input)
  THEN divideString(cache, input.s, seps.numSeparators, seps.strSeparators,
                    divideStringOptions(options))
  ELSE divideEach(cache, input.a, seps.numSeparators, seps.strSeparators,
                  divideStringOptions(options))

\* the option pipeline on what the division returned
withDividerOptions(d, options) ==
  [out |-> IF IsRaised(d.out) THEN d.out ELSE applyDividerOptions(d.out, options),
   cache |-> d.cache]

divideWith(cache, input, extracted) ==
  Only({withDividerOptions(d, extracted.options) :
          d \in {applyDivision(cache, input, seps, extracted.options) :
                   seps \in {classifySeparators(extracted.cleanedArgs)}}})

\* divider(input, ...args) against the regex cache
divider(cache, input, args) ==
  IF ~isValidInput(input) THEN [out |-> FlatResult(<<>>), cache |-> cache]
  ELSE IF isEmptyArray(args) THEN [out |-> ensureStringArray(input), cache |-> cache]
  ELSE Only({divideWith(cache, input, extracted) : extracted \in {extractOptions(args)}})

(***************************************************************************)
(* utils/quoted                                                            *)
(***************************************************************************)
\* dividePreserve without the preserveEmpty option
dividePreserveDropped(cache, input, separator) ==
  IF isEmptyString(input) THEN [out |-> FlatResult(<<<<>>>>), cache |-> cache]
  ELSE divider(cache, [t |-> "string", s |-> input], <<[t |-> "string", s |-> separator]>>)

\* dividePreserve(input, separator) against the regex cache
dividePreserve(cache, input, separator) ==
  IF isEmptyString(input) THEN [out |-> FlatResult(<<<<>>>>), cache |-> cache]
  ELSE divider(cache, [t |-> "string", s |-> input],
               <<[t |-> "string", s |-> separator],
                 [t |-> "object", o |-> [preserveEmpty |-> TRUE]]>>)

\* n more on top of what the other chunks count
addCount(n, counted) == [counted EXCEPT !.count = n + @]

\* the divider call inside dividePreserve threw
countThrew(divided) == [count |-> 0, threw |-> TRUE, cache |-> divided.cache]

RECURSIVE countChunks(_, _, _)
RECURSIVE countChunk(_, _, _)
\* for (const chunk of chunks) count += dividePreserve(chunk, quote).length - 1
countChunks(cache, chunks, quote) ==
  IF chunks = <<>> THEN [count |-> 0, threw |-> FALSE, cache |-> cache]
  ELSE Only({countChunk(divided, Tail(chunks), quote) :
               divided \in {dividePreserve(cache, Head(chunks), quote)}})

countChunk(divided, rest, quote) ==
  IF IsRaised(divided.out) THEN countThrew(divided)
  ELSE addCount(Len(divided.out.v) - 1, countChunks(divided.cache, rest, quote))

countPairChunks(divided, quote) ==
  IF IsRaised(divided.out) THEN countThrew(divided)
  ELSE countChunks(divided.cache, divided.out.v, quote)

\* countUnescaped(text, quote) against the regex cache:
\* [count |-> the number returned, threw |-> it threw instead,
\*  cache |-> the cache afterwards]
countUnescaped(cache, text, quote) ==
  Only({countPairChunks(divided, quote) :
          divided \in {dividePreserve(cache, text, quote \o quote)}})

\* char === WHITE_SPACE || char === TAB
isWhitespace(char) == char \in {" ", "\t"}

\* the character at a 0-based index
CharAt(text, index) == text[index + 1]

RECURSIVE scanLeft(_, _, _)
\* while (left <= right && isWhitespace(text[left])) left++
scanLeft(text, left, right) ==
  IF left <= right /\ isWhitespace(CharAt(text, left))
  THEN scanLeft(text, left + 1, right) ELSE left

RECURSIVE scanRight(_, _, _)
\* while (right >= left && isWhitespace(text[right])) right--
scanRight(text, left, right) ==
  IF right >= left /\ isWhitespace(CharAt(text, right))
  THEN scanRight(text, left, right - 1) ELSE right

boundsFrom(text, left) == [left |-> left, right |-> scanRight(text, left, Len(text) - 1)]

findNonSpaceBounds(text) == boundsFrom(text, scanLeft(text, 0, Len(text) - 1))

stripMatchedOuterQuotes(text, left, right) ==
  Slice(text, 0, left) \o Slice(text, left + 1, right) \o SliceFrom(text, right + 1)

removeCharAt(text, index) == Slice(text, 0, index) \o SliceFrom(text, index + 1)

stripTrailingQuoteAt(text, quoteChar, lastNonSpaceIndex) ==
  IF lastNonSpaceIndex < 0 \/ <<CharAt(text, lastNonSpaceIndex)>> # quoteChar THEN text
  ELSE removeCharAt(text, lastNonSpaceIndex)

stripTrailingQuote(text, quoteChar) ==
  stripTrailingQuoteAt(text, quoteChar, scanRight(text, 0, Len(text) - 1))

\* stripOuterQuotesRaw taking every field leniently
stripOuterQuotesAlwaysLenient(text, quoteChar, lenient, bounds) ==
  IF bounds.left > bounds.right THEN text
  ELSE IF <<CharAt(text, bounds.left)>> # quoteChar THEN text
  ELSE IF <<CharAt(text, bounds.right)>> = quoteChar /\ bounds.right > bounds.left
  THEN stripMatchedOuterQuotes(text, bounds.left, bounds.right)
  ELSE stripTrailingQuote(removeCharAt(text, bounds.left), quoteChar)

stripOuterQuotesBetween(text, quoteChar, lenient, bounds) ==
  IF bounds.left > bounds.right THEN text
  ELSE IF <<CharAt(text, bounds.left)>> # quoteChar THEN text
  ELSE IF <<CharAt(text, bounds.right)>> = quoteChar /\ bounds.right > bounds.left
  THEN stripMatchedOuterQuotes(text, bounds.left, bounds.right)
  ELSE IF ~lenient THEN text
  ELSE stripTrailingQuote(removeCharAt(text, bounds.left), quoteChar)

stripOuterQuotesRaw(text, quoteChar, lenient) ==
  Only({stripOuterQuotesBetween(text, quoteChar, lenient, bounds) :
          bounds \in {findNonSpaceBounds(text)}})

RECURSIVE restoreEscapedQuotes(_, _)
\* fieldText.split(quoteChar + quoteChar).join(quoteChar): String.prototype.split
\* on a string, each pair from the left replaced by one quote
restoreEscapedQuotes(fieldText, quoteChar) ==
  IF fieldText = <<>> THEN <<>>
  ELSE IF Len(fieldText) >= 2 /\ SubSeq(fieldText, 1, 2) = quoteChar \o quoteChar
  THEN quoteChar \o restoreEscapedQuotes(SubSeq(fieldText, 3, Len(fieldText)), quoteChar)
  ELSE <<Head(fieldText)>> \o restoreEscapedQuotes(Tail(fieldText), quoteChar)

stripOuterQuotes(text, quoteChar, lenient) ==
  Only({restoreEscapedQuotes(fieldText, quoteChar) :
          fieldText \in {stripOuterQuotesRaw(text, quoteChar, lenient)}})

\* if (trim) fieldValue = fieldValue.trim()
trimmedField(fieldValue, trim) ==
  IF trim THEN Only({Trim(value) : value \in {fieldValue}}) ELSE fieldValue

\* flushField(state, quote, trim, lenient): the state afterwards
flushField(st, quote, trim, lenient) ==
  [st EXCEPT !.fields = Append(@, trimmedField(stripOuterQuotes(st.current, quote, lenient),
                                               trim)),
             !.current = <<>>]

\* state.current = isEmptyString(state.current) ? piece : state.current + delimiter + piece
withPiece(st, piece, delimiter) ==
  [st EXCEPT !.current = IF isEmptyString(@) THEN piece ELSE @ \o delimiter \o piece]

\* appendPiece that never flushes
flushNever(st, counted, quote, trim, lenient) ==
  [state |-> st, threw |-> counted.threw, cache |-> counted.cache]

flushUnlessInside(st, counted, quote, trim, lenient) ==
  [state |-> IF counted.threw \/ counted.count % 2 = 1 THEN st
             ELSE flushField(st, quote, trim, lenient),
   threw |-> counted.threw,
   cache |-> counted.cache]

appendTo(cache, st, quote, trim, lenient) ==
  Only({flushUnlessInside(st, counted, quote, trim, lenient) :
          counted \in {countUnescaped(cache, st.current, quote)}})

\* appendPiece(state, piece, delimiter, quote, trim, lenient) against the
\* regex cache: [state |-> the state afterwards, threw |-> it threw on the
\* way, cache |-> the cache afterwards]
appendPiece(cache, st, piece, delimiter, quote, trim, lenient) ==
  Only({appendTo(cache, joined, quote, trim, lenient) :
          joined \in {withPiece(st, piece, delimiter)}})

(***************************************************************************)
(* Inputs of the calls                                                     *)
(***************************************************************************)
Num(n) == [t |-> "number", n |-> n]
Str(s) == [t |-> "string", s |-> s]
Arr(a) == [t |-> "array", a |-> a]
Obj(o) == [t |-> "object", o |-> o]
Instance(o) == [t |-> "instance", o |-> o]
Bool(b) == [t |-> "boolean", b |-> b]
Null == [t |-> "null"]

MaxLen == 3       \* longest enumerated input string
MaxSeps == 2      \* most separators in an enumerated argument list
MaxRows == 2      \* most elements of an enumerated input array
MaxArgs == 3      \* most arguments in a list of mixed values

Sigma == {"a", ",", " "}

StringsUpTo(n) == UNION {[1..k -> Sigma] : k \in 0..n}

\* cut points: before the start, the start, inside, and past the end of the
\* longest string
Indexes == {-1, 0, 1, 2, MaxLen + 1}

\* a one-character delimiter and a two-character one
Delimiters == {<<",">>, <<",", " ">>}

SeparatorArgs == {Num(n) : n \in Indexes} \cup {Str(d) : d \in Delimiters}

SeparatorLists == UNION {[1..k -> SeparatorArgs] : k \in 0..MaxSeps}

OptionObjects ==
  {[preserveEmpty |-> TRUE], [trim |-> TRUE], [flatten |-> TRUE],
   [trim |-> TRUE, exclude |-> "empty"],
   [flatten |-> TRUE, preserveEmpty |-> TRUE]}

\* the end of an argument list: no options, or one options object
OptionArgs == {<<>>} \cup {<<Obj(o)>> : o \in OptionObjects}

\* array inputs: rows from a fixed set, separators from a smaller one
RowStrings == {<<>>, <<"a">>, <<" ">>, <<"a", ",">>, <<",", "a">>, <<"a", ",", " ", "a">>}

ArraysUpTo(n) == UNION {[1..k -> RowStrings] : k \in 0..n}

ArraySeparatorArgs == {Num(1), Str(<<",">>), Str(<<" ">>)}

ArraySeparatorLists == UNION {[1..k -> ArraySeparatorArgs] : k \in 0..MaxSeps}

\* calls the documentation and the tests show
hello == <<"h", "e", "l", "l", "o">>
world == <<"w", "o", "r", "l", "d">>
fooBar == <<"f", "o", "o", ",", ",", "b", "a", "r", ",">>
spacedList == <<" ", "a", " ", ",", " ", ",", "b", " ">>

DocumentedCalls ==
  {[fn |-> "divider", input |-> Str(hello), args |-> <<Num(1), Num(3)>>],
   [fn |-> "divider", input |-> Str(hello), args |-> <<Num(2), Num(1)>>],
   [fn |-> "divider", input |-> Str(hello), args |-> <<Num(2), Str(<<"l">>)>>],
   [fn |-> "divider", input |-> Str(hello), args |-> <<Num(0)>>],
   [fn |-> "divider", input |-> Str(hello), args |-> <<Num(5)>>],
   [fn |-> "divider", input |-> Str(hello), args |-> <<Num(10)>>],
   [fn |-> "divider", input |-> Str(fooBar), args |-> <<Str(<<",">>)>>],
   [fn |-> "divider", input |-> Str(fooBar),
    args |-> <<Str(<<",">>), Obj([preserveEmpty |-> TRUE])>>],
   [fn |-> "divider", input |-> Str(spacedList),
    args |-> <<Str(<<",">>), Obj([trim |-> TRUE, exclude |-> "empty"])>>],
   [fn |-> "divider", input |-> Str(spacedList),
    args |-> <<Str(<<",">>), Obj([exclude |-> "empty"])>>],
   [fn |-> "divider", input |-> Arr(<<hello, world>>), args |-> <<Num(2)>>],
   [fn |-> "divider", input |-> Arr(<<hello, world>>),
    args |-> <<Num(2), Obj([flatten |-> TRUE])>>]}

\* one delimiter of one character, characters special to RegExp included
SpecialSigma == {"a", "-", "^", "\\"}

SpecialStrings == UNION {[1..k -> SpecialSigma] : k \in 0..MaxLen}

\* arguments of every kind: separators, values that are neither separators
\* nor options, an options object, an object of a class that owns an option
\* key, an array
MixedArgs ==
  {Num(1), Str(<<",">>), Null, Bool(TRUE), Obj([limit |-> 1]), Obj([trim |-> TRUE]),
   Instance([trim |-> TRUE]), Arr(<<<<",">>>>)}

MixedLists == UNION {[1..k -> MixedArgs] : k \in 1..MaxArgs}

MixedInputs == {Str(<<" ", "a", ",", "a">>), Arr(<<<<"a", ",", " ">>, <<>>>>)}

DividerCall(input, args) == [fn |-> "divider", input |-> input, args |-> args]

\* divideString called directly: the numeric list may hold anything
DivideStringCall(input, numSeparators, strSeparators, options) ==
  [fn |-> "divideString", input |-> input, numSeparators |-> numSeparators,
   strSeparators |-> strSeparators, options |-> options]

NumericListValues == {Num(1), Num(MaxLen + 1), Str(<<",">>), Null}

NumericLists == UNION {[1..k -> NumericListValues] : k \in 0..MaxSeps}

IsDivideStringCall(c) ==
  \E input \in {<<>>, <<"a", ",", "a">>}, numSeparators \in NumericLists,
     strSeparators \in {<<>>, <<<<",">>>>}, options \in {<<>>, [preserveEmpty |-> TRUE]} :
    c = DivideStringCall(input, numSeparators, strSeparators, options)

\* the calls of divider the model makes
IsDividerCall(c) ==
  \/ \E s \in StringsUpTo(MaxLen), l \in SeparatorLists, o \in OptionArgs :
       c = DividerCall(Str(s), l \o o)
  \/ \E s \in SpecialStrings, d \in SpecialSigma,
        o \in {<<>>, <<Obj([preserveEmpty |-> TRUE])>>} :
       c = DividerCall(Str(s), <<Str(<<d>>)>> \o o)
  \/ \E r \in ArraysUpTo(MaxRows), l \in ArraySeparatorLists, o \in OptionArgs :
       c = DividerCall(Arr(r), l \o o)
  \/ \E input \in MixedInputs, l \in MixedLists : c = DividerCall(input, l)
  \/ c \in DocumentedCalls

NoResult == [kind |-> "none", v |-> <<>>]

IdleState == [fields |-> <<>>, current |-> <<>>, pieces |-> <<>>]

(***************************************************************************)
(* Spec: one call of divider from an empty regex cache                     *)
(***************************************************************************)
Init ==
  /\ pc = "ready"
  /\ IsDividerCall(call) \/ IsDivideStringCall(call)
  /\ result = NoResult
  /\ regexCache = <<>>
  /\ state = IdleState

Return(d) ==
  /\ result' = d.out
  /\ regexCache' = d.cache
  /\ pc' = "done"
  /\ UNCHANGED <<call, state>>

\* divider(input): no further arguments
DividerNoArgs ==
  /\ pc = "ready" /\ call.fn = "divider"
  /\ call.args = <<>>
  /\ Return(divider(regexCache, call.input, call.args))

\* divider(string, ...args)
DividerString ==
  /\ pc = "ready" /\ call.fn = "divider"
  /\ call.args # <<>> /\ isString(call.input)
  /\ Return(divider(regexCache, call.input, call.args))

\* divider(string[], ...args)
DividerArray ==
  /\ pc = "ready" /\ call.fn = "divider"
  /\ call.args # <<>> /\ ~isString(call.input)
  /\ Return(divider(regexCache, call.input, call.args))

\* divideString(input, numSeparators, strSeparators, options), not through divider
DivideStringDirect ==
  /\ pc = "ready" /\ call.fn = "divideString"
  /\ Return(divideString(regexCache, call.input, call.numSeparators, call.strSeparators,
                         call.options))

Next == DividerNoArgs \/ DividerString \/ DividerArray \/ DivideStringDirect

Spec == Init /\ [][Next]_vars

(***************************************************************************)
(* SpecOptions: one call of applyDividerOptions on a divided result         *)
(***************************************************************************)
MaxSegments == 2

Segments == {<<>>, <<"a">>, <<" ">>, <<" ", "a", " ">>}

SegmentsUpTo(n) == UNION {[1..k -> Segments] : k \in 0..n}

\* the segments of " a , ,b " cut at the commas
spacedSegments == <<<<" ", "a", " ">>, <<" ">>, <<"b", " ">>>>

FlatResults == {FlatResult(v) : v \in SegmentsUpTo(MaxSegments) \cup {spacedSegments}}

ResultRows ==
  {<<>>, <<<<"a">>>>, <<<<" ">>>>, <<<<>>>>, <<<<" ", "a", " ">>, <<>>>>, <<<<"a">>, <<" ">>>>}

NestedResults == {NestedResult(rows) : rows \in UNION {[1..k -> ResultRows] : k \in 1..MaxRows}}

ExcludeModes == {"none", "empty", "whitespace"}

\* the flags of keys set to true, with exclude unset or one of its modes
OptionsRecord(keys, exclude) ==
  [k \in keys \cup (IF exclude = "unset" THEN {} ELSE {"exclude"}) |->
     IF k = "exclude" THEN exclude ELSE TRUE]

IsOptionsRecord(o) ==
  \E keys \in SUBSET {"trim", "flatten", "preserveEmpty"},
     exclude \in ExcludeModes \cup {"unset"} : o = OptionsRecord(keys, exclude)

OptionsCall(res, options) ==
  [fn |-> "applyDividerOptions", result |-> res, options |-> options]

OptionsInit ==
  /\ pc = "ready"
  /\ \E res \in FlatResults \cup NestedResults,
        keys \in SUBSET {"trim", "flatten", "preserveEmpty"},
        exclude \in ExcludeModes \cup {"unset"} :
          call = OptionsCall(res, OptionsRecord(keys, exclude))
  /\ result = NoResult
  /\ regexCache = <<>>
  /\ state = IdleState

ApplyOptions ==
  /\ result' = applyDividerOptions(call.result, call.options)
  /\ pc' = "done"
  /\ UNCHANGED <<call, regexCache, state>>

\* applyDividerOptions on the result of a string
OptionsOnFlat ==
  /\ pc = "ready" /\ call.fn = "applyDividerOptions"
  /\ call.result.kind = "flat"
  /\ ApplyOptions

\* applyDividerOptions on the result of an array
OptionsOnNested ==
  /\ pc = "ready" /\ call.fn = "applyDividerOptions"
  /\ call.result.kind = "nested"
  /\ ApplyOptions

OptionsNext == OptionsOnFlat \/ OptionsOnNested

SpecOptions == OptionsInit /\ [][OptionsNext]_vars

(***************************************************************************)
(* SpecQuoted: one call of quotedDivide, a step for each piece              *)
(***************************************************************************)
MaxLineLen == 3
MaxFields == 2

QuotedSigma == {"a", ",", "\"", " "}

ShortLines == UNION {[1..k -> QuotedSigma] : k \in 0..MaxLineLen}

FieldValues == {<<>>, <<"a">>, <<",">>, <<"\"">>, <<"a", ",", "a">>, <<"a", "\"">>, <<" ", "a">>}

FieldLists == UNION {[1..k -> FieldValues] : k \in 1..MaxFields}

RECURSIVE DoubledQuotes(_, _)
\* the value with every quote written twice
DoubledQuotes(value, quote) ==
  IF value = <<>> THEN <<>>
  ELSE (IF <<Head(value)>> = quote THEN quote \o quote ELSE <<Head(value)>>)
         \o DoubledQuotes(Tail(value), quote)

Wrapped(value, quote) == quote \o DoubledQuotes(value, quote) \o quote

IsBare(value, delimiter, quote) ==
  \A i \in 1..Len(value) : <<value[i]>> # quote /\ <<value[i]>> # delimiter

\* the field as a line holds it: as it is where wrap allows it and the value
\* has neither quote nor delimiter, else in one pair of quotes
WrittenField(value, wrap, delimiter, quote) ==
  IF ~wrap /\ IsBare(value, delimiter, quote) THEN value ELSE Wrapped(value, quote)

WrittenLine(values, wraps, delimiter, quote) ==
  Join([i \in 1..Len(values) |-> WrittenField(values[i], wraps[i], delimiter, quote)],
       delimiter)

\* '"a,b",c,,"d""e"'
quotedLine ==
  <<"\"", "a", ",", "b", "\"", ",", "c", ",", ",", "\"", "d", "\"", "\"", "e", "\"">>

quotedLineFields == <<<<"a", ",", "b">>, <<"c">>, <<>>, <<"d", "\"", "e">>>>

\* 'a,,c,' and '"a,b'
DocumentedLines ==
  {quotedLine, <<"a", ",", ",", "c", ",">>, <<"\"", "a", ",", "b">>}

QuotedCall(line, trim, lenient) ==
  [fn |-> "quotedDivide", line |-> line, delimiter |-> <<",">>, quote |-> <<"\"">>,
   trim |-> trim, lenient |-> lenient]

\* a call that names its delimiter and its quote
QuotedCallWith(line, delimiter, quote, lenient) ==
  [fn |-> "quotedDivide", line |-> line, delimiter |-> delimiter, quote |-> quote,
   trim |-> FALSE, lenient |-> lenient]

\* delimiters and quotes that mean something in a regular expression
SpecialDelimiters == {<<"-">>, <<"\\">>}
SpecialQuotes == {<<"^">>, <<"-">>}

IsQuotedCall(c) ==
  \/ \E line \in ShortLines \cup DocumentedLines, trim \in BOOLEAN, lenient \in BOOLEAN :
        c = QuotedCall(line, trim, lenient)
  \/ \E values \in FieldLists, trim \in BOOLEAN, lenient \in BOOLEAN :
        \E wraps \in [1..Len(values) -> BOOLEAN] :
          c = QuotedCall(WrittenLine(values, wraps, <<",">>, <<"\"">>), trim, lenient)
  \/ \E line \in SpecialStrings, delimiter \in SpecialDelimiters,
        quote \in SpecialQuotes, lenient \in BOOLEAN :
        c = QuotedCallWith(line, delimiter, quote, lenient)

QuotedInit ==
  /\ pc = "ready"
  /\ IsQuotedCall(call)
  /\ result = NoResult
  /\ regexCache = <<>>
  /\ state = IdleState

\* if (isEmptyString(line)) return ['']
QuotedEmptyLine ==
  /\ pc = "ready" /\ call.fn = "quotedDivide"
  /\ isEmptyString(call.line)
  /\ result' = FlatResult(<<<<>>>>)
  /\ pc' = "done"
  /\ UNCHANGED <<call, regexCache, state>>

StartFields(divided) ==
  /\ regexCache' = divided.cache
  /\ IF IsRaised(divided.out)
     THEN result' = divided.out /\ pc' = "done" /\ UNCHANGED state
     ELSE /\ state' = [fields |-> <<>>, current |-> <<>>, pieces |-> divided.out.v]
          /\ pc' = "pieces"
          /\ UNCHANGED result
  /\ UNCHANGED call

\* buildQuotedFields: const pieces = dividePreserve(line, delimiter)
DividePieces ==
  /\ pc = "ready" /\ call.fn = "quotedDivide"
  /\ ~isEmptyString(call.line)
  /\ \E divided \in {dividePreserve(regexCache, call.line, call.delimiter)} :
       StartFields(divided)

PieceAppended(appended) ==
  /\ regexCache' = appended.cache
  /\ IF appended.threw
     THEN state' = appended.state /\ result' = Raised("SyntaxError") /\ pc' = "done"
     ELSE state' = [appended.state EXCEPT !.pieces = Tail(@)] /\ UNCHANGED <<pc, result>>
  /\ UNCHANGED call

\* buildQuotedFields: one turn of the loop over the pieces
AppendPiece ==
  /\ pc = "pieces" /\ state.pieces # <<>>
  /\ \E appended \in {appendPiece(regexCache, state, Head(state.pieces), call.delimiter,
                                    call.quote, call.trim, call.lenient)} :
       PieceAppended(appended)

FieldsReturned(st) ==
  /\ state' = st
  /\ result' = FlatResult(st.fields)
  /\ pc' = "done"
  /\ UNCHANGED <<call, regexCache>>

\* buildQuotedFields: the flush of what is left, and the return
ReturnFields ==
  /\ pc = "pieces" /\ state.pieces = <<>>
  /\ FieldsReturned(IF isEmptyString(state.current) THEN state
                    ELSE flushField(state, call.quote, call.trim, call.lenient))

QuotedNext == QuotedEmptyLine \/ DividePieces \/ AppendPiece \/ ReturnFields

SpecQuoted == QuotedInit /\ [][QuotedNext]_vars

\* the call runs to its return: nothing suspends the loop
SpecQuotedFair == SpecQuoted /\ WF_vars(QuotedNext)

(***************************************************************************)
(* SpecLoop: one call of dividerLoop(input, size, options)                 *)
(***************************************************************************)
RECURSIVE chunkStringWholeOnly(_, _)
\* the chunking that keeps only the chunks of full size
chunkStringWholeOnly(str, size) ==
  IF Len(str) < size THEN <<>>
  ELSE <<SubSeq(str, 1, size)>> \o chunkStringWholeOnly(SubSeq(str, size + 1, Len(str)), size)

RECURSIVE chunksFrom(_, _)
chunksFrom(str, size) ==
  IF Len(str) <= size THEN <<str>>
  ELSE <<SubSeq(str, 1, size)>> \o chunksFrom(SubSeq(str, size + 1, Len(str)), size)

\* the string cut every size characters from its start; '' gives ['']
chunkString(str, size) == chunksFrom(str, size)

\* each element cut on its own
chunkEach(items, size) == [i \in 1..Len(items) |-> chunkString(items[i], size)]

\* dividerLoop(input, size, options): [] for a size that is not positive,
\* else the chunks of the string, or of each element, through the options
dividerLoop(input, size, options) ==
  IF size <= 0 THEN FlatResult(<<>>)
  ELSE IF isString(input)
  THEN applyDividerOptions(FlatResult(chunkString(input.s, size)), options)
  ELSE applyDividerOptions(NestedResult(chunkEach(input.a, size)), options)

MaxChunked == 4   \* longest enumerated string to chunk
MaxSize == 3      \* largest enumerated chunk size

ChunkedStrings == UNION {[1..k -> {"a", "b"}] : k \in 0..MaxChunked}

ChunkedArrays ==
  {<<>>} \cup {<<s>> : s \in ChunkedStrings}
         \cup {<<s, t>> : s \in {<<"a", "b", "a">>, <<>>}, t \in ChunkedStrings}

ChunkSizes == -1..MaxSize

LoopOptions == {<<>>, [flatten |-> TRUE]}

abcdefghij == <<"a", "b", "c", "d", "e", "f", "g", "h", "i", "j">>
abcdef == <<"a", "b", "c", "d", "e", "f">>
ghijklmn == <<"g", "h", "i", "j", "k", "l", "m", "n">>

LoopCall(input, size, options) ==
  [fn |-> "dividerLoop", input |-> input, size |-> size, options |-> options]

\* the calls the README and the tests show
DocumentedLoopCalls ==
  {LoopCall(Str(abcdefghij), 3, <<>>),
   LoopCall(Arr(<<hello, world>>), 2, [flatten |-> TRUE]),
   LoopCall(Arr(<<abcdef, ghijklmn>>), 2, <<>>),
   LoopCall(Arr(<<abcdef, ghijklmn>>), 2, [flatten |-> TRUE])}

IsLoopCall(c) ==
  \/ \E s \in ChunkedStrings, size \in ChunkSizes, o \in LoopOptions :
       c = LoopCall(Str(s), size, o)
  \/ \E a \in ChunkedArrays, size \in ChunkSizes, o \in LoopOptions :
       c = LoopCall(Arr(a), size, o)
  \/ c \in DocumentedLoopCalls

LoopInit ==
  /\ pc = "ready"
  /\ IsLoopCall(call)
  /\ result = NoResult
  /\ regexCache = <<>>
  /\ state = IdleState

LoopReturn ==
  /\ result' = dividerLoop(call.input, call.size, call.options)
  /\ pc' = "done"
  /\ UNCHANGED <<call, regexCache, state>>

\* a size that is not positive
LoopInvalidSize == pc = "ready" /\ call.fn = "dividerLoop" /\ call.size <= 0 /\ LoopReturn

LoopString ==
  pc = "ready" /\ call.fn = "dividerLoop" /\ call.size > 0 /\ isString(call.input) /\ LoopReturn

LoopArray ==
  pc = "ready" /\ call.fn = "dividerLoop" /\ call.size > 0 /\ ~isString(call.input) /\ LoopReturn

LoopNext == LoopInvalidSize \/ LoopString \/ LoopArray

SpecLoop == LoopInit /\ [][LoopNext]_vars


(***************************************************************************)
(* presets/query-divider                                                   *)
(***************************************************************************)
RECURSIVE indexOfFrom(_, _, _)
indexOfFrom(s, c, i) ==
  IF i > Len(s) THEN -1 ELSE IF s[i] = c THEN i - 1 ELSE indexOfFrom(s, c, i + 1)

\* String.prototype.indexOf(c) for a one-character c: zero-based, -1 when absent
indexOf(s, c) == indexOfFrom(s, c, 1)

\* String.prototype.slice(from) / slice(0, to) with indexes inside the string
sliceFrom(s, from) == SubSeq(s, from + 1, Len(s))
sliceTo(s, to) == SubSeq(s, 1, to)

IsAsciiAlpha(c) == c \in {"a", "b", "c", "d", "e", "f", "h", "j", "l", "o", "r", "w"}
IsAsciiDigit(c) == c \in {"2", "6"}
IsSchemeChar(c) == IsAsciiAlpha(c) \/ IsAsciiDigit(c) \/ c \in {"+", "-", "."}

\* the length of the scheme "alpha (alpha | digit | + | - | .)* :" the input
\* starts with, colon included; 0 when it starts with none
schemeLength(input) ==
  IF \E k \in 2..Len(input) :
       /\ input[k] = ":"
       /\ IsAsciiAlpha(input[1])
       /\ \A i \in 2..(k - 1) : IsSchemeChar(input[i])
  THEN indexOf(input, ":") + 1
  ELSE 0

\* the text between the first '?' and the first '#' after it, when no '#'
\* comes before that '?'
queryOf(rest) ==
  Only({IF indexOf(cut, "?") >= 0 THEN sliceFrom(cut, indexOf(cut, "?") + 1) ELSE <<>> :
          cut \in {IF indexOf(rest, "#") >= 0 THEN sliceTo(rest, indexOf(rest, "#")) ELSE rest}})

\* new URL(input) without a base, for a scheme that is not a special one
\* (no http, ws, ftp, file can be spelled) followed by an opaque path:
\* [ok |-> it did not throw, search |-> url.search]
NewURL(input) ==
  IF schemeLength(input) = 0 THEN [ok |-> FALSE, search |-> <<>>]
  ELSE Only({[ok |-> TRUE, search |-> IF query = <<>> THEN <<>> ELSE <<"?">> \o query] :
               query \in {queryOf(sliceFrom(input, schemeLength(input)))}})

\* the catch branch without the cut: the input itself
extractQueryWholeInput(input) == input

extractQueryFromQuestionMark(input) ==
  Only({IF indexOf(withoutFragment, "?") >= 0
        THEN sliceFrom(withoutFragment, indexOf(withoutFragment, "?") + 1)
        ELSE withoutFragment :
          withoutFragment \in
            {IF indexOf(input, "#") >= 0 THEN sliceTo(input, indexOf(input, "#")) ELSE input}})

searchWithoutQuestionMark(url) ==
  IF url.search # <<>> /\ Head(url.search) = "?" THEN Tail(url.search) ELSE url.search

tryExtractQuery(input) ==
  Only({IF url.ok THEN searchWithoutQuestionMark(url)
        ELSE extractQueryFromQuestionMark(input) : url \in {NewURL(input)}})

stripLeadingQuestionMark(query) ==
  IF query # <<>> /\ Head(query) = "?" THEN Tail(query) ELSE query

\* only the piece after the first '=' kept as the value
keyValueSecondPiece(kv) == <<kv[1], IF Len(kv) = 1 THEN <<>> ELSE kv[2]>>

\* [kv[0] ?? '', ''] or [kv[0] ?? '', kv.slice(1).join('=')]
keyValue(kv) ==
  IF Len(kv) = 1 THEN <<kv[1], <<>>>>
  ELSE <<kv[1], Join(Tail(kv), <<"=">>)>>

\* splitOnFirstEquals(part) against the regex cache:
\* [pair |-> [key, value], threw |-> dividePreserve threw, cache |-> the cache afterwards]
splitOnFirstEquals(cache, part) ==
  Only({IF IsRaised(divided.out)
        THEN [pair |-> <<>>, threw |-> TRUE, cache |-> divided.cache]
        ELSE [pair |-> keyValue(divided.out.v), threw |-> FALSE, cache |-> divided.cache] :
          divided \in {dividePreserve(cache, part, <<"=">>)}})

\* t.replace(/\+/g, ' ')
replacePlus(t) == [i \in 1..Len(t) |-> IF t[i] = "+" THEN " " ELSE t[i]]

IsHexDigit(c) == c \in {"2", "6", "a", "b", "c", "d", "e", "f"}
HexValue(c) ==
  CASE c = "2" -> 2 [] c = "6" -> 6 [] c = "a" -> 10 [] c = "b" -> 11
    [] c = "c" -> 12 [] c = "d" -> 13 [] c = "e" -> 14 [] c = "f" -> 15

\* String.fromCharCode for the one-byte escapes the alphabet can spell
FromCharCode(code) ==
  CASE code = 34 -> "\"" [] code = 38 -> "&" [] code = 42 -> "*"
    [] code = 98 -> "b"  [] code = 102 -> "f" [] code = 106 -> "j"

MaxAscii == 127

RECURSIVE decodeURIComponent(_)
\* decodeURIComponent(t): [ok |-> it did not throw URIError, s |-> the text].
\* An escape needs two hex digits; a byte above 127 opens a UTF-8 sequence,
\* and none of the bytes the alphabet spells (a2, a6, aa, ...) may open one.
decodeURIComponent(t) ==
  IF t = <<>> THEN [ok |-> TRUE, s |-> <<>>]
  ELSE IF Head(t) # "%"
  THEN Only({[ok |-> rest.ok, s |-> <<Head(t)>> \o rest.s] :
               rest \in {decodeURIComponent(Tail(t))}})
  ELSE IF Len(t) < 3 \/ ~IsHexDigit(t[2]) \/ ~IsHexDigit(t[3])
  THEN [ok |-> FALSE, s |-> <<>>]
  ELSE IF 16 * HexValue(t[2]) + HexValue(t[3]) > MaxAscii
  THEN [ok |-> FALSE, s |-> <<>>]
  ELSE Only({[ok |-> rest.ok,
              s |-> <<FromCharCode(16 * HexValue(t[2]) + HexValue(t[3]))>> \o rest.s] :
               rest \in {decodeURIComponent(SubSeq(t, 4, Len(t)))}})

\* try { t = decodeURIComponent(t) } catch { leave undecoded }
decodeOrKeep(t) ==
  Only({IF decoded.ok THEN decoded.s ELSE t : decoded \in {decodeURIComponent(t)}})

\* decodeField without the decoding: the text itself, trimmed on request
decodeFieldRaw(text, mode, trim) == IF trim THEN Trim(text) ELSE text

decodeField(text, mode, trim) ==
  Only({IF trim THEN Trim(t) ELSE t :
          t \in {IF mode = "auto" THEN decodeOrKeep(replacePlus(text)) ELSE text}})

decodePair(pair, mode, trim) ==
  <<decodeField(pair[1], mode, trim), decodeField(pair[2], mode, trim)>>

RECURSIVE mapParts(_, _, _, _)
RECURSIVE mapPart(_, _, _, _)
\* parts.map(part => [decodeField(key), decodeField(value)]) against the cache
mapParts(cache, parts, mode, trim) ==
  IF parts = <<>> THEN [out |-> NestedResult(<<>>), cache |-> cache]
  ELSE Only({mapPart(kv, Tail(parts), mode, trim) :
               kv \in {splitOnFirstEquals(cache, Head(parts))}})

mapPart(kv, rest, mode, trim) ==
  IF kv.threw THEN [out |-> [kind |-> "TypeError", v |-> <<>>], cache |-> kv.cache]
  ELSE Only({IF IsRaised(more.out) THEN more
             ELSE [out |-> NestedResult(<<decodePair(kv.pair, mode, trim)>> \o more.out.v),
                   cache |-> more.cache] :
               more \in {mapParts(kv.cache, rest, mode, trim)}})

queryPairs(divided, mode, trim) ==
  IF IsRaised(divided.out) THEN divided
  ELSE mapParts(divided.cache, divided.out.v, mode, trim)

\* the defaults of the options parameter: mode 'auto', trim false
modeOf(options) == IF "mode" \in DOMAIN options THEN options.mode ELSE "auto"
trimOf(options) == IF "trim" \in DOMAIN options THEN options.trim ELSE FALSE

divideQuery(cache, query, options) ==
  IF Len(query) = 0 THEN [out |-> FlatResult(<<>>), cache |-> cache]
  ELSE Only({queryPairs(divided, modeOf(options), trimOf(options)) :
               divided \in {dividePreserve(cache, query, <<"&">>)}})

\* queryDivider(input, options) against the regex cache
queryDivider(cache, input, options) ==
  IF Len(input) = 0 THEN [out |-> FlatResult(<<>>), cache |-> cache]
  ELSE divideQuery(cache, stripLeadingQuestionMark(tryExtractQuery(input)), options)

MaxQueryLen == 4    \* longest enumerated query string
MaxEscapedLen == 3  \* longest enumerated string of percent escapes

QuerySigma == {"a", "=", "&", "?", "#", "+", ":"}
QueryStrings == UNION {[1..k -> QuerySigma] : k \in 0..MaxQueryLen}

EscapedSigma == {"%", "2", "6", "a", "="}
EscapedStrings == UNION {[1..k -> EscapedSigma] : k \in 0..MaxEscapedLen}

QueryOptions == {<<>>, [mode |-> "raw"], [trim |-> TRUE]}

QueryCall(input, options) == [fn |-> "queryDivider", input |-> input, options |-> options]

\* queryDivider('a=&b&=c&') of the tests, and their 'a=1=2' with the digit 2
DocumentedQueryCalls ==
  {QueryCall(<<"a", "=", "&", "b", "&", "=", "c", "&">>, <<>>),
   QueryCall(<<"a", "=", "2", "=", "2">>, <<>>)}

IsQueryCall(c) ==
  \/ \E s \in QueryStrings \cup EscapedStrings, o \in QueryOptions : c = QueryCall(s, o)
  \/ c \in DocumentedQueryCalls

QueryInit ==
  /\ pc = "ready"
  /\ IsQueryCall(call)
  /\ result = NoResult
  /\ regexCache = <<>>
  /\ state = IdleState

QueryReturned(returned) ==
  /\ result' = returned.out
  /\ regexCache' = returned.cache
  /\ pc' = "done"
  /\ UNCHANGED <<call, state>>

QueryReturn ==
  \E returned \in {queryDivider(regexCache, call.input, call.options)} :
    QueryReturned(returned)

\* if (input.length === 0) return []
QueryEmptyInput ==
  pc = "ready" /\ call.fn = "queryDivider" /\ Len(call.input) = 0 /\ QueryReturn

\* new URL(input) succeeded: the query is url.search
QueryOfURL ==
  /\ pc = "ready" /\ call.fn = "queryDivider" /\ Len(call.input) > 0
  /\ NewURL(call.input).ok
  /\ QueryReturn

\* new URL(input) threw: the query is cut out of the input
QueryOfText ==
  /\ pc = "ready" /\ call.fn = "queryDivider" /\ Len(call.input) > 0
  /\ ~NewURL(call.input).ok
  /\ QueryReturn

QueryNext == QueryEmptyInput \/ QueryOfURL \/ QueryOfText

SpecQuery == QueryInit /\ [][QueryNext]_vars


(***************************************************************************)
(* presets/path-divider                                                    *)
(***************************************************************************)
RECURSIVE flatMapSlash(_, _)
RECURSIVE flatMapMore(_, _)
\* parts.flatMap(part => dividePreserve(part, '/')) against the regex cache
flatMapSlash(cache, parts) ==
  IF parts = <<>> THEN [out |-> FlatResult(<<>>), cache |-> cache]
  ELSE Only({flatMapMore(divided, Tail(parts)) :
               divided \in {dividePreserve(cache, Head(parts), <<"/">>)}})

flatMapMore(divided, rest) ==
  IF IsRaised(divided.out) THEN divided
  ELSE Only({IF IsRaised(more.out) THEN more
             ELSE [out |-> FlatResult(divided.out.v \o more.out.v), cache |-> more.cache] :
               more \in {flatMapSlash(divided.cache, rest)}})

flatMapParts(divided) ==
  IF IsRaised(divided.out) THEN divided ELSE flatMapSlash(divided.cache, divided.out.v)

buildPathSegments(cache, input, collapse) ==
  IF collapse
  THEN divider(cache, [t |-> "string", s |-> input],
               <<[t |-> "string", s |-> <<"/">>], [t |-> "string", s |-> <<"|">>]>>)
  ELSE Only({flatMapParts(divided) : divided \in {dividePreserve(cache, input, <<"|">>)}})

\* trimSegments of the path preset (option.ts has one of the same name)
trimPathSegments(segments, trim) ==
  IF trim THEN [i \in 1..Len(segments) |-> Trim(segments[i])] ELSE segments

\* applyCollapseRules that filters nothing
applyCollapseRulesKeepAll(segments, collapse) == segments

NotEmptyString(segment) == ~isEmptyString(segment)

applyCollapseRules(segments, collapse) ==
  IF collapse THEN SelectSeq(segments, NotEmptyString) ELSE segments

pathSegments(built, trim, collapse) ==
  IF IsRaised(built.out) THEN built
  ELSE [out |-> FlatResult(applyCollapseRules(trimPathSegments(built.out.v, trim), collapse)),
        cache |-> built.cache]

\* const { trim = false, collapse = true } = options
pathTrim(options) == IF "trim" \in DOMAIN options THEN options.trim ELSE FALSE
pathCollapse(options) == IF "collapse" \in DOMAIN options THEN options.collapse ELSE TRUE

\* pathDivider(input, options) against the regex cache
pathDivider(cache, input, options) ==
  IF isEmptyString(input) THEN [out |-> FlatResult(<<<<>>>>), cache |-> cache]
  ELSE Only({pathSegments(built, pathTrim(options), pathCollapse(options)) :
               built \in {buildPathSegments(cache, input, pathCollapse(options))}})

MaxPathLen == 4   \* longest enumerated path

PathSigma == {"a", " ", "/", "|"}
PathStrings == UNION {[1..k -> PathSigma] : k \in 0..MaxPathLen}

PathOptions ==
  {<<>>, [collapse |-> FALSE], [trim |-> TRUE], [trim |-> TRUE, collapse |-> FALSE]}

PathCall(input, options) == [fn |-> "pathDivider", input |-> input, options |-> options]

\* pathDivider('/a//b/') of the README, with and without collapse
DocumentedPathCalls ==
  {PathCall(<<"/", "a", "/", "/", "b", "/">>, o) : o \in {<<>>, [collapse |-> FALSE]}}

IsPathCall(c) ==
  \/ \E s \in PathStrings, o \in PathOptions : c = PathCall(s, o)
  \/ c \in DocumentedPathCalls

PathInit ==
  /\ pc = "ready"
  /\ IsPathCall(call)
  /\ result = NoResult
  /\ regexCache = <<>>
  /\ state = IdleState

PathReturned(returned) ==
  /\ result' = returned.out
  /\ regexCache' = returned.cache
  /\ pc' = "done"
  /\ UNCHANGED <<call, state>>

PathReturn ==
  \E returned \in {pathDivider(regexCache, call.input, call.options)} :
    PathReturned(returned)

\* if (isEmptyString(input)) return ['']
PathEmptyInput ==
  pc = "ready" /\ call.fn = "pathDivider" /\ isEmptyString(call.input) /\ PathReturn

\* collapse: one divider call with both separators
PathCollapsed ==
  /\ pc = "ready" /\ call.fn = "pathDivider" /\ ~isEmptyString(call.input)
  /\ pathCollapse(call.options)
  /\ PathReturn

\* collapse: false: dividePreserve at '|', then at '/'
PathPreserved ==
  /\ pc = "ready" /\ call.fn = "pathDivider" /\ ~isEmptyString(call.input)
  /\ ~pathCollapse(call.options)
  /\ PathReturn

PathNext == PathEmptyInput \/ PathCollapsed \/ PathPreserved

SpecPath == PathInit /\ [][PathNext]_vars


(***************************************************************************)
(* countUnescaped called on its own                                        *)
(***************************************************************************)
CountCall(text, quote) == [fn |-> "countUnescaped", text |-> text, quote |-> quote]

\* the texts of the function's comment and tests: '"a', '"a"', 'a""b'
DocumentedTexts == {<<"\"", "a">>, <<"\"", "a", "\"">>, <<"a", "\"", "\"", "b">>}

IsCountCall(c) == \E text \in ShortLines \cup DocumentedTexts : c = CountCall(text, <<"\"">>)

CountInit ==
  /\ pc = "ready"
  /\ IsCountCall(call)
  /\ result = NoResult
  /\ regexCache = <<>>
  /\ state = IdleState

CountReturned(counted) ==
  /\ result' = IF counted.threw THEN [kind |-> "TypeError", v |-> <<>>]
               ELSE [kind |-> "count", v |-> counted.count]
  /\ regexCache' = counted.cache
  /\ pc' = "done"
  /\ UNCHANGED <<call, state>>

CountReturn ==
  \E counted \in {countUnescaped(regexCache, call.text, call.quote)} : CountReturned(counted)

\* dividePreserve('') is [''] without a divider call
CountOfEmptyText ==
  pc = "ready" /\ call.fn = "countUnescaped" /\ isEmptyString(call.text) /\ CountReturn

CountOfText ==
  pc = "ready" /\ call.fn = "countUnescaped" /\ ~isEmptyString(call.text) /\ CountReturn

CountNext == CountOfEmptyText \/ CountOfText

SpecCount == CountInit /\ [][CountNext]_vars


(***************************************************************************)
(* divideString at lists of one-character delimiters                       *)
(***************************************************************************)
MaxDelims == 3     \* most delimiters in an enumerated list
MaxDividedLen == 2 \* longest string divided at them

DelimiterSigma == {"a", "c", "-", "^", "]", "\\"}
DelimiterLists == UNION {[1..k -> {<<c>> : c \in DelimiterSigma}] : k \in 1..MaxDelims}

DividedSigma == {"a", "b", "-", "^"}
DividedStrings == UNION {[1..k -> DividedSigma] : k \in 0..MaxDividedLen}

IsDelimitersCall(c) ==
  \E input \in DividedStrings, strSeparators \in DelimiterLists :
    c = DivideStringCall(input, <<>>, strSeparators, [preserveEmpty |-> TRUE])

DelimitersInit ==
  /\ pc = "ready"
  /\ IsDelimitersCall(call)
  /\ result = NoResult
  /\ regexCache = <<>>
  /\ state = IdleState

\* new RegExp(`[${pattern}]`, 'g') compiled: the parts are split at its matches
DelimitersCompiled ==
  /\ ~getRegex(regexCache, call.strSeparators).threw
  /\ DivideStringDirect

\* new RegExp(`[${pattern}]`, 'g') threw a SyntaxError
DelimitersRejected ==
  /\ getRegex(regexCache, call.strSeparators).threw
  /\ DivideStringDirect

DelimitersNext == DelimitersCompiled \/ DelimitersRejected

SpecDelimiters == DelimitersInit /\ [][DelimitersNext]_vars


(***************************************************************************)
(* Calls of getRegex and divideString one after the other, on one cache    *)
(***************************************************************************)
\* lists that share their characters, their joined text or their class, and
\* one whose class does not compile ([c-a])
CachedLists ==
  {<<<<"a">>>>, <<<<"-">>>>, <<<<"a">>, <<"c">>>>, <<<<"c">>, <<"a">>>>, <<<<"a", "c">>>>,
   <<<<"a">>, <<"-">>, <<"c">>>>, <<<<"c">>, <<"-">>, <<"a">>>>,
   <<<<"a", "\"", ",", "\"", "c">>>>}

CachedInputs == {<<>>, <<"b">>, <<"a", "b", "c">>, <<"a", "-", "c">>}

GetRegexCall(separators) == [fn |-> "getRegex", separators |-> separators]

GetRegexResult(got) ==
  IF got.null THEN [kind |-> "null", v |-> <<>>]
  ELSE IF got.threw THEN Raised("SyntaxError")
  ELSE [kind |-> "regex", v |-> got.regex]

CacheInit ==
  /\ pc = "ready"
  /\ call = [fn |-> "none"]
  /\ result = NoResult
  /\ regexCache = <<>>
  /\ state = IdleState

GetRegexReturned(separators, got) ==
  /\ call' = GetRegexCall(separators)
  /\ result' = GetRegexResult(got)
  /\ regexCache' = got.cache
  /\ pc' = "done"
  /\ UNCHANGED state

GetRegexReturn(separators) ==
  \E got \in {getRegex(regexCache, separators)} : GetRegexReturned(separators, got)

\* if (isEmptyArray(separators)) return null
GetRegexOfNone == GetRegexReturn(<<>>)

\* regexCache.has(key): the stored regex is returned
GetRegexHit ==
  \E separators \in CachedLists :
    JSONStringify(separators) \in DOMAIN regexCache /\ GetRegexReturn(separators)

\* no entry under the key: the regex is compiled and stored
GetRegexMiss ==
  \E separators \in CachedLists :
    JSONStringify(separators) \notin DOMAIN regexCache /\ GetRegexReturn(separators)

DivideReturned(c, divided) ==
  /\ call' = c
  /\ result' = divided.out
  /\ regexCache' = divided.cache
  /\ pc' = "done"
  /\ UNCHANGED state

\* divideString(input, [], separators, { preserveEmpty: true }) on the cache as it is
DivideWithCache ==
  \E input \in CachedInputs, separators \in CachedLists :
    \E divided \in {divideString(regexCache, input, <<>>, separators, [preserveEmpty |-> TRUE])} :
      DivideReturned(DivideStringCall(input, <<>>, separators, [preserveEmpty |-> TRUE]), divided)

CacheNext == GetRegexOfNone \/ GetRegexHit \/ GetRegexMiss \/ DivideWithCache

SpecCache == CacheInit /\ [][CacheNext]_vars

(***************************************************************************)
(* What the claims speak of, stated without the code                       *)
(***************************************************************************)
Range(seq) == {seq[i] : i \in 1..Len(seq)}

Occurrences(seq, x) == Cardinality({i \in 1..Len(seq) : seq[i] = x})

\* the numbers in ascending order: the ordered list with the same members,
\* each as often
RefAscending(nums) ==
  CHOOSE t \in [1..Len(nums) -> Range(nums)] :
    /\ \A i \in 1..Len(nums) : \A j \in i..Len(nums) : t[i] <= t[j]
    /\ \A x \in Range(nums) : Occurrences(t, x) = Occurrences(nums, x)

RefClamp(len, k) == IF k < 0 THEN 0 ELSE IF k > len THEN len ELSE k

\* the pieces between consecutive cut points 0 <= c1 <= ... <= cn <= length
PiecesBetween(s, cuts) ==
  [k \in 1..(Len(cuts) - 1) |-> SubSeq(s, cuts[k] + 1, cuts[k + 1])]

ClampedCuts(s, sorted) ==
  <<0>> \o [i \in 1..Len(sorted) |-> RefClamp(Len(s), sorted[i])] \o <<Len(s)>>

RefSlices(s, nums) ==
  IF nums = <<>> THEN <<s>> ELSE PiecesBetween(s, ClampedCuts(s, RefAscending(nums)))

\* does the non-empty string d occur in s at position i
OccursAt(s, d, i) ==
  d # <<>> /\ i + Len(d) - 1 <= Len(s) /\ SubSeq(s, i, i + Len(d) - 1) = d

\* the first delimiter of the list that occurs at position i (0: none does)
DelimiterAt(s, delims, i) ==
  IF \E k \in 1..Len(delims) : OccursAt(s, delims[k], i)
  THEN CHOOSE k \in 1..Len(delims) :
         OccursAt(s, delims[k], i) /\ \A j \in 1..(k - 1) : ~OccursAt(s, delims[j], i)
  ELSE 0

RECURSIVE RefSplitFrom(_, _, _, _, _)
RefSplitFrom(s, delims, i, cur, out) ==
  IF i > Len(s) THEN Append(out, cur)
  ELSE IF DelimiterAt(s, delims, i) # 0
  THEN RefSplitFrom(s, delims, i + Len(delims[DelimiterAt(s, delims, i)]), <<>>,
                    Append(out, cur))
  ELSE RefSplitFrom(s, delims, i + 1, Append(cur, s[i]), out)

\* s split at every occurrence of a delimiter as a whole substring
RefSplit(s, delims) ==
  IF delims = <<>> THEN <<s>> ELSE RefSplitFrom(s, delims, 1, <<>>, <<>>)

NonEmpty(segments) == SelectSeq(segments, LAMBDA x : x # <<>>)

RefSplitEach(parts, delims) ==
  Flat([i \in 1..Len(parts) |-> RefSplit(parts[i], delims)])

\* slice at the sorted indexes, split each slice at the delimiters, in order
RefDivide(s, nums, delims, preserveEmpty) ==
  IF preserveEmpty THEN RefSplitEach(RefSlices(s, nums), delims)
  ELSE NonEmpty(RefSplitEach(RefSlices(s, nums), delims))

(***************************************************************************)
(* The call a state is about                                               *)
(***************************************************************************)
Done == pc = "done"

CallOptions == extractOptions(call.args).options

CallSeparators == extractOptions(call.args).cleanedArgs

CallIndexes == NumbersOf(SelectSeq(CallSeparators, isNumber))

CallDelimiters == StringsOf(SelectSeq(CallSeparators, isString))

PreserveEmptySet == OptionIs(CallOptions, "preserveEmpty", TRUE)

\* no option but, possibly, preserveEmpty
PlainDivision == DOMAIN CallOptions \subseteq {"preserveEmpty"}

StringCallDone == Done /\ call.fn = "divider" /\ isString(call.input)

ArrayCallDone == Done /\ call.fn = "divider" /\ call.input.t = "array"

\* divider on one string from an empty cache, with the call's arguments
AloneResult(s) == divider(<<>>, Str(s), call.args).out

(***************************************************************************)
(* C1  divide on a string with at least one index or delimiter returns the *)
(* slices at the ascending indexes, each split at the delimiters (whole    *)
(* substrings), concatenated in slice order.                               *)
(***************************************************************************)
C1_SliceThenSplit ==
  (StringCallDone /\ CallSeparators # <<>> /\ PlainDivision)
    => result = FlatResult(RefDivide(call.input.s, CallIndexes, CallDelimiters,
                                     PreserveEmptySet))

(***************************************************************************)
(* C2  a delimiter of two or more characters splits the input only where   *)
(* the whole delimiter occurs, never at one of its characters alone.       *)
(***************************************************************************)
C2_WholeDelimiterOnly ==
  (StringCallDone /\ PlainDivision /\ CallIndexes = <<>>
     /\ Len(CallDelimiters) = 1 /\ Len(CallDelimiters[1]) >= 2)
    => result = FlatResult(RefDivide(call.input.s, <<>>, CallDelimiters, PreserveEmptySet))

(***************************************************************************)
(* C3  quotedDivide gives back the field values a line was written from:   *)
(* each field as it is (when it has neither quote nor delimiter) or in one *)
(* pair of quotes with every quote inside doubled, the fields joined with  *)
(* the delimiter.  quotedDivide('"a,b",c,,"d""e"') is                      *)
(* ['a,b', 'c', '', 'd"e'].                                                *)
(***************************************************************************)
QuotedCallDone == Done /\ call.fn = "quotedDivide" /\ ~call.trim /\ call.lenient

C3_QuotedRoundTrip ==
  QuotedCallDone
    => /\ \A values \in FieldLists : \A wraps \in [1..Len(values) -> BOOLEAN] :
            call.line = WrittenLine(values, wraps, call.delimiter, call.quote)
              => result = FlatResult(values)
       /\ call.line = quotedLine => result = FlatResult(quotedLineFields)

(***************************************************************************)
(* C4  applyDividerOptions is the trim stage, then the flatten stage, then *)
(* the exclude stage, each acting only when its own flag asks for it:      *)
(* trim when trim is true, flatten when flatten is true, exclude when      *)
(* exclude is a mode other than none.  With trim before exclude, the       *)
(* segments of " a , ,b " lose the all-whitespace one under                *)
(* {trim, exclude: empty} and keep it under {exclude: empty}.              *)
(***************************************************************************)
RefTrimRow(row, preserveEmpty) ==
  IF preserveEmpty THEN Map(row, Trim) ELSE NonEmpty(Map(row, Trim))

RefTrimStage(res, options) ==
  IF ~OptionIs(options, "trim", TRUE) THEN res
  ELSE IF res.kind = "flat"
  THEN FlatResult(RefTrimRow(res.v, OptionIs(options, "preserveEmpty", TRUE)))
  ELSE NestedResult([i \in 1..Len(res.v) |->
                       RefTrimRow(res.v[i], OptionIs(options, "preserveEmpty", TRUE))])

RefFlattenStage(res, options) ==
  IF OptionIs(options, "flatten", TRUE) /\ res.kind = "nested"
  THEN FlatResult(Flat(res.v)) ELSE res

RefKept(row, exclude) ==
  IF exclude = "empty" THEN NonEmpty(row)
  ELSE SelectSeq(row, LAMBDA x : \E i \in 1..Len(x) : ~IsTrimSpace(x[i]))

RefKeptRows(rows, preserveEmpty) ==
  IF preserveEmpty THEN rows ELSE NonEmpty(rows)

RefExcludeStage(res, options) ==
  IF "exclude" \notin DOMAIN options \/ options.exclude = "none" THEN res
  ELSE IF res.kind = "flat" THEN FlatResult(RefKept(res.v, options.exclude))
  ELSE NestedResult(RefKeptRows([i \in 1..Len(res.v) |-> RefKept(res.v[i], options.exclude)],
                                OptionIs(options, "preserveEmpty", TRUE)))

OptionsCallDone == Done /\ call.fn = "applyDividerOptions"

C4_TrimFlattenExclude ==
  OptionsCallDone
    => result = RefExcludeStage(
                  RefFlattenStage(RefTrimStage(call.result, call.options), call.options),
                  call.options)

(***************************************************************************)
(* C5  divide on an array without flatten returns one inner sequence per   *)
(* element, in order: as many as the input has elements, the i-th equal to *)
(* divide on the i-th element alone, empty inner sequences included.       *)
(***************************************************************************)
C5_OneRowPerElement ==
  (ArrayCallDone /\ call.args # <<>> /\ ~OptionIs(CallOptions, "flatten", TRUE))
    => /\ ~IsRaised(result)
       /\ Len(result.v) = Len(call.input.a)
       /\ \A i \in 1..Len(call.input.a) : result.v[i] = AloneResult(call.input.a[i]).v

(***************************************************************************)
(* C6  divide(s, ...indices) is the same for every order of the indices,   *)
(* and is the division at the indices in ascending order.                  *)
(***************************************************************************)
IndexesOnly ==
  /\ StringCallDone /\ call.args # <<>>
  /\ \A i \in 1..Len(call.args) : isNumber(call.args[i])

Permuted(args, f) == [i \in 1..Len(args) |-> args[f[i]]]

Reorderings(n) == {f \in [1..n -> 1..n] : \A i, j \in 1..n : f[i] = f[j] => i = j}

C6_IndexOrderInvariant ==
  IndexesOnly
    => /\ \A f \in Reorderings(Len(call.args)) :
            divider(<<>>, call.input, Permuted(call.args, f)).out = result
       /\ result = FlatResult(NonEmpty(RefSlices(call.input.s, CallIndexes)))

C6_Witness ==
  /\ IndexesOnly
  /\ call.input.s = hello /\ CallIndexes = <<2, 1>>
  /\ result = FlatResult(<<<<"h">>, <<"e">>, <<"l", "l", "o">>>>)

(***************************************************************************)
(* C7  divide(s, d, {preserveEmpty: true}) for a one-character delimiter d *)
(* gives segments that joined with d are s again, one more segment than    *)
(* there are occurrences of d in s.                                        *)
(***************************************************************************)
OneCharDelimiterPreserved ==
  /\ StringCallDone
  /\ Len(call.args) = 2 /\ isString(call.args[1]) /\ Len(call.args[1].s) = 1
  /\ call.args[2] = Obj([preserveEmpty |-> TRUE])

C7_EmptySegmentRoundTrip ==
  OneCharDelimiterPreserved
    => /\ ~IsRaised(result)
       /\ Join(result.v, call.args[1].s) = call.input.s
       /\ Len(result.v) = Occurrences(call.input.s, call.args[1].s[1]) + 1

C7_Witness ==
  /\ OneCharDelimiterPreserved
  /\ call.input.s = fooBar
  /\ result = FlatResult(<<<<"f", "o", "o">>, <<>>, <<"b", "a", "r">>, <<>>>>)

(***************************************************************************)
(* C8  divide on a string with an index or a delimiter returns no empty    *)
(* segment unless preserveEmpty is true; with preserveEmpty true the empty *)
(* segments the cuts produce stay where they are: n index cuts give n + 1  *)
(* segments that concatenate to the input, and dropping the empty ones     *)
(* gives the result without preserveEmpty.                                 *)
(***************************************************************************)
WithoutOptions == divider(<<>>, call.input, CallSeparators).out

C8_EmptySegmentsDropped ==
  (StringCallDone /\ CallSeparators # <<>> /\ ~IsRaised(result))
    => /\ ~PreserveEmptySet => \A i \in 1..Len(result.v) : result.v[i] # <<>>
       /\ (PreserveEmptySet /\ PlainDivision)
            => /\ WithoutOptions = FlatResult(NonEmpty(result.v))
               /\ CallDelimiters = <<>>
                    => /\ Len(result.v) = Len(CallIndexes) + 1
                       /\ Flat(result.v) = call.input.s

C8_Witness ==
  /\ StringCallDone /\ CallOptions = <<>>
  /\ call.input.s = fooBar /\ CallDelimiters = <<<<",">>>>
  /\ result = FlatResult(<<<<"f", "o", "o">>, <<"b", "a", "r">>>>)

(***************************************************************************)
(* C9  divide(s) with no further argument is [s], the empty string         *)
(* included; divide(array) is the array itself, element for element, not a *)
(* nested result.                                                          *)
(***************************************************************************)
C9_IdentityWithoutArguments ==
  (Done /\ call.fn = "divider" /\ call.args = <<>>)
    => /\ isString(call.input) => result = FlatResult(<<call.input.s>>)
       /\ call.input.t = "array" => result = FlatResult(call.input.a)

C9_Witness ==
  /\ Done /\ call.fn = "divider" /\ call.args = <<>>
  /\ call.input = Arr(<<<<"a">>, <<>>>>)
  /\ result = FlatResult(<<<<"a">>, <<>>>>)

(***************************************************************************)
(* C10  flatten collapses exactly one level: on an array the result is the *)
(* flat concatenation, in order, of the results of the elements; on a      *)
(* result that is flat already (string input, or flatten applied again) it *)
(* changes nothing.                                                        *)
(***************************************************************************)
FlattenCallDone ==
  Done /\ call.fn = "divider" /\ OptionIs(CallOptions, "flatten", TRUE) /\ ~IsRaised(result)

OtherOptions == [k \in DOMAIN CallOptions \ {"flatten"} |-> CallOptions[k]]

\* the call's arguments with the flatten option taken out
ArgsWithoutFlatten ==
  IF DOMAIN OtherOptions = {} THEN CallSeparators
  ELSE Append(CallSeparators, Obj(OtherOptions))

WithoutFlatten(s) == divider(<<>>, Str(s), ArgsWithoutFlatten).out

TrimOnNested ==
  /\ OptionsCallDone
  /\ call.result.kind = "nested"
  /\ OptionIs(call.options, "trim", TRUE)

C11_TrimNestedRows ==
  TrimOnNested
    => /\ ~IsRaised(result)
       /\ (~OptionIs(call.options, "flatten", TRUE) /\ OptionIs(call.options, "exclude", "none"))
            => result = NestedResult([i \in 1..Len(call.result.v) |->
                          RefTrimRow(call.result.v[i],
                                     OptionIs(call.options, "preserveEmpty", TRUE))])

(***************************************************************************)
(* C12  With exclude empty or whitespace on a nested result the predicate  *)
(* filters the segments of each inner sequence separately, and an inner    *)
(* sequence that is or becomes empty is removed unless preserveEmpty is    *)
(* true, the first inner sequence being empty or not.  (Stated with trim   *)
(* and flatten unset, so that exclude is the only stage acting.)           *)
(***************************************************************************)
ExcludeOnNested ==
  /\ OptionsCallDone
  /\ call.result.kind = "nested"
  /\ "exclude" \in DOMAIN call.options /\ call.options.exclude # "none"
  /\ DOMAIN call.options \subseteq {"exclude", "preserveEmpty"}

C12_ExcludeNestedRows ==
  ExcludeOnNested
    => result = NestedResult(RefKeptRows(
                  [i \in 1..Len(call.result.v) |-> RefKept(call.result.v[i], call.options.exclude)],
                  OptionIs(call.options, "preserveEmpty", TRUE)))

(***************************************************************************)
(* C13  With trim, flatten and exclude all absent (options {} or only      *)
(* preserveEmpty) applyDividerOptions returns the result it was given:     *)
(* same segments, same inner sequences, the empty ones included.           *)
(***************************************************************************)
NoStageAsked ==
  OptionsCallDone /\ DOMAIN call.options \subseteq {"preserveEmpty"}

C13_UnsetStagesSkipped == NoStageAsked => result = call.result

(***************************************************************************)
(* C14  On a line without a quote character quotedDivide returns one field *)
(* for each piece between delimiters, the empty ones kept: one more field  *)
(* than there are delimiters, each field the piece (trimmed when trim is   *)
(* set).  'a,,c,' gives ['a','','c','']; the empty line gives [''].        *)
(***************************************************************************)
QuoteFree(text) == \A i \in 1..Len(text) : <<text[i]>> # call.quote

QuoteFreeLineDone == Done /\ call.fn = "quotedDivide" /\ QuoteFree(call.line)

FieldOf(piece) == IF call.trim THEN Trim(piece) ELSE piece

C14_FieldPerPiece ==
  QuoteFreeLineDone
    => /\ result.kind = "flat"
       /\ Len(result.v) = Occurrences(call.line, call.delimiter[1]) + 1
       /\ result.v = [i \in 1..Len(result.v) |->
                        FieldOf(RefSplit(call.line, <<call.delimiter>>)[i])]
       /\ call.line = <<>> => result.v = <<<<>>>>

C14_Witness ==
  /\ QuoteFreeLineDone /\ ~call.trim
  /\ call.line = <<"a", ",", ",", "c", ",">>
  /\ result = FlatResult(<<<<"a">>, <<>>, <<"c">>, <<>>>>)

(***************************************************************************)
(* C15  When the line ends inside an open quote and lenient is true, what  *)
(* is left, delimiters included, is one last field without its leading     *)
(* quote: a line that is a quote followed by quote-free text gives that    *)
(* text as its only field.  quotedDivide('"a,b') is ['a,b'].               *)
(***************************************************************************)
UnterminatedLineDone ==
  /\ Done /\ call.fn = "quotedDivide" /\ call.lenient /\ ~call.trim
  /\ call.line # <<>> /\ <<Head(call.line)>> = call.quote
  /\ QuoteFree(Tail(call.line))

C15_LenientLastField ==
  UnterminatedLineDone => result = FlatResult(<<Tail(call.line)>>)

(***************************************************************************)
(* C16  With lenient false a field that opens with a quote and has no      *)
(* closing quote at its last non-blank position is returned as it stands,  *)
(* while a field in one matching pair of quotes loses the pair.  (Stated   *)
(* for lines of one piece, and for fields without doubled quotes.)         *)
(***************************************************************************)
StrictOnePieceDone ==
  /\ Done /\ call.fn = "quotedDivide" /\ ~call.lenient
  /\ call.line # <<>>
  /\ \A i \in 1..Len(call.line) : <<call.line[i]>> # call.delimiter

\* opens with a quote, after blanks, and the last non-blank is no other quote
OpensUnclosed(text) ==
  /\ Trim(text) # <<>> /\ <<Head(Trim(text))>> = call.quote
  /\ QuoteFree(Tail(Trim(text)))

\* one pair of quotes around quote-free text, blanks allowed outside
InOnePair(text) ==
  /\ Len(Trim(text)) >= 2
  /\ <<Head(Trim(text))>> = call.quote
  /\ <<Trim(text)[Len(Trim(text))]>> = call.quote
  /\ QuoteFree(SubSeq(Trim(text), 2, Len(Trim(text)) - 1))

\* the text with its first and its last quote taken out
WithoutPair(text) == SelectSeq(text, LAMBDA c : <<c>> # call.quote)

QuotedReturned ==
  /\ Done /\ call.fn = "quotedDivide"
  /\ result.kind = "flat" /\ Len(result.v) >= 1
  /\ state.pieces = <<>>

OnePieceATurn ==
  (pc = "pieces" /\ state.pieces # <<>>)
    => /\ state'.pieces = Tail(state.pieces)
       /\ pc' = "pieces"

C17_QuotedDivideTotal == <>QuotedReturned /\ [][OnePieceATurn]_vars

\* '^a\' with the delimiter \ and the quote ^: an unbalanced quote
C17_Witness ==
  /\ QuotedReturned
  /\ call.line = <<"^", "a", "\\">> /\ call.delimiter = <<"\\">> /\ call.quote = <<"^">>

(***************************************************************************)
(* C18  The last argument is the options exactly when it is a plain object *)
(* that owns one of the keys flatten, trim, preserveEmpty, exclude (else   *)
(* the options are {}); of the other arguments the numbers and the strings *)
(* are kept in their order and every other value is dropped, an            *)
(* options-like object that is not last included, so that the call returns *)
(* what it returns on the kept arguments and the options alone.            *)
(***************************************************************************)
LastArg(args) == args[Len(args)]

OwnsOptionKey(value) ==
  /\ value.t \in {"object", "instance"}
  /\ \E key \in {"flatten", "trim", "preserveEmpty", "exclude"} : key \in DOMAIN value.o

TakenAsOptions(args) ==
  args # <<>> /\ LastArg(args).t = "object" /\ OwnsOptionKey(LastArg(args))

\* the numbers and strings among the arguments before the options
KeptArgs(args, taken) ==
  SelectSeq(IF taken THEN SubSeq(args, 1, Len(args) - 1) ELSE args,
            LAMBDA value : value.t \in {"number", "string"})

Classified(args, taken) ==
  [cleanedArgs |-> KeptArgs(args, taken),
   options     |-> IF taken THEN LastArg(args).o ELSE <<>>]

\* the call with nothing but what the classification keeps
CleanArgs(args, taken) == KeptArgs(args, taken) \o (IF taken THEN <<LastArg(args)>> ELSE <<>>)

DividerCallDone == Done /\ call.fn = "divider" /\ call.args # <<>>

HandedIndexes == classifySeparators(CallSeparators).numSeparators

HoldsNonNumber(values) == \E i \in 1..Len(values) : values[i].t # "number"

OutOfRangeAt(k) ==
  /\ isNumber(call.args[k])
  /\ (call.args[k].n <= 0 \/ call.args[k].n >= Len(call.input.s))

AtOrPastEnd(k) == isNumber(call.args[k]) /\ call.args[k].n >= Len(call.input.s)

\* the call without its k-th argument
WithoutPoint(k) ==
  divider(<<>>, call.input,
          SubSeq(call.args, 1, k - 1) \o SubSeq(call.args, k + 1, Len(call.args))).out

WithEmptyAtEnd(r) == [r EXCEPT !.v = Append(@, <<>>)]

C20_OutOfRangePointsIgnored ==
  StringCallDone
    => \A k \in 1..Len(call.args) :
         OutOfRangeAt(k)
           => /\ ~IsRaised(result)
              /\ (~PreserveEmptySet /\ (call.input.s # <<>> \/ Len(CallSeparators) > 1))
                   => result = WithoutPoint(k)
              /\ (PreserveEmptySet /\ AtOrPastEnd(k))
                   => result \in {WithoutPoint(k), WithEmptyAtEnd(WithoutPoint(k))}

\* divider('hello', 10) = ['hello']
C20_Witness ==
  /\ StringCallDone
  /\ call.input.s = hello /\ call.args = <<Num(10)>>
  /\ result = FlatResult(<<hello>>)

\* C20 as stated: for every string, the empty one included
C20_AnyStringUnchanged ==
  StringCallDone
    => \A k \in 1..Len(call.args) :
         (OutOfRangeAt(k) /\ ~PreserveEmptySet) => result = WithoutPoint(k)

(***************************************************************************)
(* C21  dividerLoop on a non-empty string with a positive size and no      *)
(* option returns chunks that joined give the string back, each of exactly *)
(* size characters but the last, which has between 1 and size; a size that *)
(* is not positive gives [] for a string and for an array; '' with a       *)
(* positive size gives [''].                                               *)
(***************************************************************************)
LoopCallDone == Done /\ call.fn = "dividerLoop"

ChunksOf(r, s, size) ==
  /\ r.kind = "flat" /\ Len(r.v) >= 1
  /\ Flat(r.v) = s
  /\ \A i \in 1..(Len(r.v) - 1) : Len(r.v[i]) = size
  /\ Len(r.v[Len(r.v)]) \in 1..size

C21_FixedSizeChunks ==
  LoopCallDone
    => /\ call.size <= 0 => result = FlatResult(<<>>)
       /\ (call.size > 0 /\ isString(call.input) /\ call.options = <<>>)
            => IF call.input.s = <<>> THEN result = FlatResult(<<<<>>>>)
               ELSE ChunksOf(result, call.input.s, call.size)

\* dividerLoop('abcdefghij', 3) = ['abc', 'def', 'ghi', 'j']
C21_Witness ==
  /\ LoopCallDone
  /\ call.input = Str(abcdefghij) /\ call.size = 3
  /\ result = FlatResult(<<<<"a", "b", "c">>, <<"d", "e", "f">>, <<"g", "h", "i">>, <<"j">>>>)

(***************************************************************************)
(* C22  dividerLoop on an array with flatten true returns the chunks of    *)
(* the elements taken together, as the README shows:                       *)
(* dividerLoop(['hello', 'world'], 2, { flatten: true }) is                *)
(* ['he', 'll', 'ow', 'or', 'ld'].                                         *)
(***************************************************************************)
\* the k-th run of size characters of s, for each k
RunsOf(s, size) ==
  [k \in 1..((Len(s) + size - 1) \div size) |->
     SubSeq(s, (k - 1) * size + 1, Min(k * size, Len(s)))]

FlattenedLoopDone ==
  /\ LoopCallDone /\ call.size > 0 /\ ~isString(call.input)
  /\ OptionIs(call.options, "flatten", TRUE)
  /\ \A i \in 1..Len(call.input.a) : call.input.a[i] # <<>>

C22_ChunksOfElementsTogether ==
  FlattenedLoopDone => result = FlatResult(RunsOf(Flat(call.input.a), call.size))

(***************************************************************************)
(* queryDivider                                                            *)
(***************************************************************************)
QueryCallDone == pc = "done" /\ call.fn = "queryDivider"

RECURSIVE PartsAt(_, _, _)
\* the parts of s between the occurrences of the character c, empty ones included
PartsAt(s, c, acc) ==
  IF s = <<>> THEN <<acc>>
  ELSE IF Head(s) = c THEN <<acc>> \o PartsAt(Tail(s), c, <<>>)
  ELSE PartsAt(Tail(s), c, Append(acc, Head(s)))

FirstAt(s, c) == IF c \in Range(s) THEN CHOOSE i \in 1..Len(s) : s[i] = c /\ \A j \in 1..(i - 1) : s[j] # c ELSE 0

\* the text before the first '=' and the text after it ('' without any '=')
KeyOf(part) == IF FirstAt(part, "=") = 0 THEN part ELSE SubSeq(part, 1, FirstAt(part, "=") - 1)
ValueOf(part) == IF FirstAt(part, "=") = 0 THEN <<>> ELSE SubSeq(part, FirstAt(part, "=") + 1, Len(part))

WithoutLeadingQuestionMark(s) == IF s # <<>> /\ Head(s) = "?" THEN Tail(s) ELSE s

\* a raw query: after one optional leading '?', no '?' and no '#'
IsRawQuery(s) ==
  /\ "?" \notin Range(WithoutLeadingQuestionMark(s))
  /\ "#" \notin Range(WithoutLeadingQuestionMark(s))

PairsOfParts(parts) == [i \in 1..Len(parts) |-> <<KeyOf(parts[i]), ValueOf(parts[i])>>]

DecodedPairs(pairs, options) ==
  [i \in 1..Len(pairs) |->
     <<decodeField(pairs[i][1], modeOf(options), trimOf(options)),
       decodeField(pairs[i][2], modeOf(options), trimOf(options))>>]

RawQueryDone ==
  /\ QueryCallDone
  /\ IsRawQuery(call.input)
  /\ WithoutLeadingQuestionMark(call.input) # <<>>

\* C23: for a non-empty raw query that new URL does not take for an absolute
\* URL, queryDivider returns one [key, value] pair per '&'-separated part, in
\* order and with the empty parts; each part is split at its first '=' only
\* (no '=': value ''), key and value as decodeField returns the two texts;
\* '' and '?' give [].
C23_PairPerPart ==
  /\ RawQueryDone /\ ~NewURL(call.input).ok
       => result = NestedResult(DecodedPairs(
                     PairsOfParts(PartsAt(WithoutLeadingQuestionMark(call.input), "&", <<>>)),
                     call.options))
  /\ QueryCallDone /\ call.input \in {<<>>, <<"?">>} => result = FlatResult(<<>>)

\* queryDivider('a=&b&=c&') has returned [['a',''],['b',''],['','c'],['','']]
C23_Witness ==
  /\ QueryCallDone
  /\ call.input = <<"a", "=", "&", "b", "&", "=", "c", "&">>
  /\ result = NestedResult(<<<< <<"a">>, <<>> >>, << <<"b">>, <<>> >>,
                             << <<>>, <<"c">> >>, << <<>>, <<>> >>>>)

\* C23 as stated: with the default options, key and value of every raw query
\* are the very texts before and after the first '='
C23_TextsAsWritten ==
  RawQueryDone /\ call.options = <<>>
    => result = NestedResult(
                  PairsOfParts(PartsAt(WithoutLeadingQuestionMark(call.input), "&", <<>>)))

Count(s, c) == Cardinality({i \in 1..Len(s) : s[i] = c})

BeforeFirst(s, c) == IF FirstAt(s, c) = 0 THEN s ELSE SubSeq(s, 1, FirstAt(s, c) - 1)
AfterFirst(s, c) == IF FirstAt(s, c) = 0 THEN s ELSE SubSeq(s, FirstAt(s, c) + 1, Len(s))

\* what is left of a relative reference: the fragment cut away, then the text
\* after the first '?', then one more leading '?' removed
QueryOfReference(s) == WithoutLeadingQuestionMark(AfterFirst(BeforeFirst(s, "#"), "?"))

TextCallDone == QueryCallDone /\ call.input # <<>> /\ ~NewURL(call.input).ok

CollapsedPathDone == pc = "done" /\ call.fn = "pathDivider" /\ pathCollapse(call.options)

\* what the same input and trim give with collapse: false
Uncollapsed(input, options) ==
  pathDivider(<<>>, input, [trim |-> pathTrim(options), collapse |-> FALSE]).out

NonEmptySegments(segments) == SelectSeq(segments, NotEmptyString)

\* C24: for a non-empty input, the result of pathDivider with collapse (the
\* default) has no empty segment and is the non-empty segments, in order, of
\* what collapse: false gives for the same input and trim; the empty input
\* gives [''] either way.
C24_CollapseKeepsNonEmpty ==
  CollapsedPathDone =>
    /\ call.input # <<>> =>
         /\ result.kind = "flat"
         /\ \A i \in 1..Len(result.v) : result.v[i] # <<>>
         /\ result.v = NonEmptySegments(Uncollapsed(call.input, call.options).v)
    /\ call.input = <<>> => result = FlatResult(<<<<>>>>)

\* pathDivider('/a//b/') has returned ['a', 'b']
C24_Witness ==
  /\ CollapsedPathDone
  /\ call.input = <<"/", "a", "/", "/", "b", "/">>
  /\ result = FlatResult(<<<<"a">>, <<"b">>>>)

\* C24 as stated: every input, the empty one included
C24_EveryInputCollapsed ==
  CollapsedPathDone =>
    /\ \A i \in 1..Len(result.v) : result.v[i] # <<>>
    /\ result.v = NonEmptySegments(Uncollapsed(call.input, call.options).v)

(***************************************************************************)
(* countUnescaped                                                          *)
(***************************************************************************)
RECURSIVE UnpairedQuotes(_, _)
\* the quote characters of the text that are not part of a pair of two
\* adjacent ones, the pairs taken from left to right
UnpairedQuotes(text, q) ==
  IF text = <<>> THEN 0
  ELSE IF Len(text) >= 2 /\ text[1] = q /\ text[2] = q
  THEN UnpairedQuotes(SubSeq(text, 3, Len(text)), q)
  ELSE (IF text[1] = q THEN 1 ELSE 0) + UnpairedQuotes(Tail(text), q)

\* C25: countUnescaped(text, quote) is the number of quote characters of the
\* text that are not part of an escaped pair, the pairs taken left to right
\* ('"a' -> 1, '"a"' -> 2, 'a""b' -> 0).
C25_UnpairedQuotesCounted ==
  pc = "done" /\ call.fn = "countUnescaped"
    => result = [kind |-> "count", v |-> UnpairedQuotes(call.text, call.quote[1])]

(***************************************************************************)
(* Delimiters matched literally                                            *)
(***************************************************************************)
RECURSIVE PartsAtMembers(_, _, _)
\* the parts of s between its characters that are members of the set
PartsAtMembers(s, members, acc) ==
  IF s = <<>> THEN <<acc>>
  ELSE IF Head(s) \in members THEN <<acc>> \o PartsAtMembers(Tail(s), members, <<>>)
  ELSE PartsAtMembers(Tail(s), members, Append(acc, Head(s)))

\* the characters a list of one-character delimiters holds
DelimiterSet(strSeparators) == {strSeparators[i][1] : i \in 1..Len(strSeparators)}

\* C26: for every list of one-character delimiters, '-', '^', ']' and '\' in
\* any position included, divideString splits at a position exactly when the
\* character there is one of the delimiters.
C26_DelimitersLiteral ==
  pc = "done" /\ call.fn = "divideString" /\ call.strSeparators \in DelimiterLists
    => result = FlatResult(PartsAtMembers(call.input, DelimiterSet(call.strSeparators), <<>>))

(***************************************************************************)
(* The regex cache                                                         *)
(***************************************************************************)
\* the lists whose key is in the cache
ListsOfKey(key) == {l \in CachedLists : JSONStringify(l) = key}

\* every entry is what compiling its key's list afresh gives
EntriesFresh ==
  \A key \in DOMAIN regexCache :
    \A l \in ListsOfKey(key) : regexCache[key] = NewCharClassRegExp(getRegexPattern(l))

\* no two different lists under one key
KeysApart ==
  \A l1 \in CachedLists, l2 \in CachedLists : JSONStringify(l1) = JSONStringify(l2) => l1 = l2

\* a call returns what it returns on an empty cache
SameAsOnEmptyCache ==
  /\ pc = "done" /\ call.fn = "getRegex"
       => result = GetRegexResult(getRegex(<<>>, call.separators))
  /\ pc = "done" /\ call.fn = "divideString"
       => result = divideString(<<>>, call.input, call.numSeparators, call.strSeparators,
                                call.options).out

\* every entry stays, with the regex it had
EntriesKept ==
  \A key \in DOMAIN regexCache :
    key \in DOMAIN regexCache' /\ regexCache'[key] = regexCache[key]

\* C27: after any sequence of getRegex and divideString calls, every cache
\* entry equals a fresh compilation of its key, two different delimiter lists
\* have different keys, a call returns what it returns on an empty cache, and
\* no call removes or replaces an entry.
C27_CacheTransparent ==
  [](EntriesFresh /\ KeysApart /\ SameAsOnEmptyCache) /\ [][EntriesKept]_vars

\* [a-c] was in the cache when 'abc' was divided at ['a', 'c'], and both
\* entries are there now
C27_Witness ==
  /\ pc = "done" /\ call.fn = "divideString"
  /\ call.input = <<"a", "b", "c">> /\ call.strSeparators = <<<<"a">>, <<"c">>>>
  /\ result = FlatResult(<<<<>>, <<"b">>, <<>>>>)
  /\ DOMAIN regexCache =
       {JSONStringify(<<<<"a">>, <<"-">>, <<"c">>>>), JSONStringify(<<<<"a">>, <<"c">>>>)}

(***************************************************************************)
(* The option pipeline applied twice                                       *)
(***************************************************************************)
\* C28: applyDividerOptions(applyDividerOptions(r, o), o) is
\* applyDividerOptions(r, o) for every flat or nested r and every o: applied
\* to what it returned, the pipeline returns it unchanged and does not raise.
C28_OptionsIdempotent ==
  OptionsCallDone /\ ~IsRaised(result)
    => applyDividerOptions(result, call.options) = result

(***************************************************************************)
(* The tokenizer's buffer and fields                                       *)
(***************************************************************************)
\* between two pieces of a quotedDivide call
BetweenPieces == pc = "pieces" /\ call.fn = "quotedDivide"

OddQuoteParity(text, quote) == UnpairedQuotes(text, quote[1]) % 2 = 1

\* the buffer is empty, or holds a text with an odd number of unescaped quotes
BufferEmptyOrInsideQuotes ==
  BetweenPieces => state.current = <<>> \/ OddQuoteParity(state.current, call.quote)

IsPrefix(s, t) == Len(s) <= Len(t) /\ SubSeq(t, 1, Len(s)) = s

\* a piece adds at most one field and leaves the emitted ones as they are
FieldsOnlyGrow ==
  BetweenPieces /\ state.pieces # <<>>
    => /\ IsPrefix(state.fields, state'.fields)
       /\ Len(state'.fields) <= Len(state.fields) + 1

\* C30: after each piece the tokenizer's buffer is empty or holds a text of
\* odd quote parity, never a non-empty text of even parity; the completed
\* fields only grow, by at most one per piece, and an emitted field is never
\* changed.
C30_TokenizerState == []BufferEmptyOrInsideQuotes /\ [][FieldsOnlyGrow]_vars

\* after the first piece of 'a,a': one field emitted, the buffer empty, one
\* piece left
C30_Witness ==
  /\ BetweenPieces
  /\ call.line = <<"a", ",", "a">> /\ call.delimiter = <<",">>
  /\ state = [fields |-> <<<<"a">>>>, current |-> <<>>, pieces |-> <<<<"a">>>>]

====
